---- MODULE Spec2Model ----
(***************************************************************************)
(* Verification model of the zestic restore / backend / recover code.      *)
(* Each subsystem has its own variables, its own actions and its own       *)
(* specification (SpecWarn, SpecMeta, SpecOpenNW, SpecSave, SpecRecover,   *)
(* SpecFW, SpecAds); all specifications start from the one state Init and  *)
(* leave the other subsystems' variables unchanged.                        *)
(***************************************************************************)
EXTENDS Integers, Sequences, FiniteSets, TLC

VARIABLES
    \* ---- unknown generic attributes (internal/restic/node.go) ----
    gaOS,        \* the OS this process runs on: "unset", "windows", "other"
    gaHistory,   \* unknownGenericAttributesHandlingHistory (sync.Map keys)
    gaWarned,    \* per key: number of "WARNING: Found an unrecognized ..." lines
    gaIgnored,   \* per key: number of "Ignoring a generic attribute ..." lines
    gaHandled,   \* per key: calls of handleUnknownGenericAttributeFound so far
    gaPc,        \* per goroutine: "idle", "loop", "log"
    gaTodo,      \* per goroutine: attribute names of the node still to restore
    gaCur,       \* per goroutine: the key whose message is about to be logged
    gaNodes,     \* per goroutine: nodes restored so far
    \* ---- restoreMetadata (internal/restic/node.go) ----
    rmPc,        \* "idle", "lchown", "times", "xattr", "generic", "chmod", "done"
    rmType,      \* node.Type: "file", "dir", "symlink"
    rmEuid,      \* os.Geteuid()
    rmFirstErr,  \* firsterr: "nil" or the name of the step whose error it holds
    rmSteps,     \* the metadata calls made so far, in order, with their outcome
    rmRet,       \* value returned by restoreMetadata ("none" until it returns)
    \* ---- non-Windows openFile (internal/restorer/fileswriter_notwin.go) ----
    nwPc,        \* "idle", "create", "reset", "truncwrite", "wronly", "ret", "done"
    nwCreateSize,\* the createSize argument
    nwExists,    \* file system: the path exists
    nwReadonly,  \* file system: the file has no write permission
    nwLen,       \* file system: length of the file's content
    nwF,         \* local f: "nil" or "open" (an open descriptor)
    nwErr,       \* local err
    nwLog,       \* the calls made by this openFile, in order: <<call, error, flags>>
    nwRet,       \* the returned <<file, err>> (<<"none", "none">> before the return)
    \* ---- SaveWithOptions (internal/backend/util/file_helper.go) ----
    svPc,        \* position in SaveWithOptions
    svKind,      \* file type of the handle the caller saves
    svData,      \* the bytes rd delivers (rd.Length() = Len(svData))
    svOld,       \* what the final name held when Save was called
    svFinal,     \* file system: the object under the final name
    svTmp,       \* file system: the temporary file
    svTmpOpen,   \* the descriptor f of the temporary file is open
    svDir,       \* file system: the directory of the final name exists
    svErr,       \* err
    svSync,      \* outcome of f.Sync(): "none", "ok", "notsup"
    svDefer,     \* the cleanup defer of line 102 is registered
    svRet,       \* the error Save returned ("none" before the return)
    svPermanent, \* the returned error is wrapped by backoff.Permanent
    svRemoveErr, \* what options.Remove returned in the deferred cleanup: "none" when not called
    svCreateRet, \* the error the last Create returned ("none" before any)
    \* ---- recover (cmd/restic/cmd_recover.go) ----
    rcPc,        \* position in runRecover
    rcRepo,      \* the repository: indexed trees, their subtrees, unreadable trees,
                 \* trees of the existing snapshots
    rcKeys,      \* keys of the map trees
    rcSeen,      \* keys of trees whose value is true
    rcTodo,      \* keys the range loop over trees has still to visit
    rcRoots,     \* roots
    rcLocked,    \* the exclusive repository lock is held by this process
    rcCancelled, \* ctx is cancelled
    rcWorker,    \* the goroutine of wg.Go: "none", "savetree", "flush", "ok", "failed"
    rcTreeID,    \* treeID: "unset" or "recovered"
    rcFlushed,   \* repo.Flush has completed successfully
    rcSaved,     \* snapshots written by this run: their tree and its directories
    rcPrinted,   \* number of errors reported with printer.E
    rcRet,       \* what runRecover returned ("none" before the return)
    \* ---- filesWriter.writeToFile (internal/restorer/fileswriter.go) ----
    fwPc,        \* per goroutine: position in writeToFile
    fwChunk,     \* per goroutine: the chunk (blob, offset) of its call
    fwCreateSize,\* per goroutine: createSize of its call
    fwWr,        \* per goroutine: the handle acquireWriter returned (0: none)
    fwErr,       \* per goroutine: the error of WriteAt
    fwLock,      \* bucket.lock: its holder, 0 when free
    fwFiles,     \* bucket.files[path]
    fwOpen,      \* the os.File handles that are open
    fwNextH,     \* number of handles opened so far
    fwFile,      \* the target file on disk
    fwSparse,    \* fileInfo.sparse
    fwResult,    \* per chunk: "todo", "running", or what writeToFile returned
    fwOutOfOrder,\* a chunk was written after a chunk of a higher offset
    fwMaxUsers,  \* the largest reference count a handle has had
    fwPrealloc,  \* what fs.PreallocateFile returned for the file: "none" before the call
    \* ---- Windows OpenFile for a file with alternate data streams
    \*      (internal/restorer/restorer_windows.go) ----
    adPc,        \* per part (0: the main file, s: its stream s): position
    adCalls,     \* per part: number of writeToFile calls that returned nil
    adAttempt,   \* per part: 1 in the first openFileImpl of OpenFile, 2 in the retry, else 0
    adMutex,     \* per part: the mutex GetOrCreateMutex returned (0: none)
    adMainPath,  \* per part: openFileImpl returned the main path (FALSE: "")
    adMap,       \* pathMutexMap.mutex[mainPath] (0: no entry)
    adLocked,    \* the mutexes that are locked
    adDisk,      \* the target: main file, its streams, its read-only flag
    adStreamFirst, \* a stream was created while the main file had not been opened yet
    \* ---- Windows OpenFile with EFS encryption (unnamed/part_002) ----
    enPc, \* per part (0: the main file, s: its stream s): position
    enCalls, \* per part: number of writeToFile calls that returned nil
    enAttempt, \* per part: 2 when the next openFileImpl is the retry of OpenFile
    enDisk, \* the target: main file, streams, read-only and encrypted attributes
    enWas, \* the target as it was when the restore began
    enList, \* the streams of the snapshot's file (adsValues)
    enNeeded, \* the snapshot's file is encrypted (isEncryptionNeeded)
    \* ---- SaveDir: save the children of a directory, then its tree ----
    sdPc, \* SaveDir: idle, loop (before the next child), returned
    sdPaths, \* the sorted paths not yet handed to arch.Save
    sdNodes, \* nodes, the children appended so far
    sdReported, \* the children whose error arch.error chose to ignore
    sdCancelled, \* ctx is cancelled
    sdRet, \* what SaveDir returned (none before the return)
    sdSubmitted, \* treeSaver.Save was called with nodes
    \* ---- List: run a callback for each file of a backend directory ----
    lsPc, \* List: idle, dirs (before the next subdirectory), files (before the next file), returned
    lsSubdirs, \* the layout has subdirectories (visitDirs) or not (visitFiles)
    lsDirs, \* subdirectories not yet visited
    lsFiles, \* files of the current directory not yet passed to fn
    lsCalls, \* calls of fn so far
    lsCancelled, \* ctx is cancelled
    lsFirstErr, \* the first error of the backend, of fn or of ctx that List met
    lsRet, \* what List returned (none before the return)
    \* ---- Progress counters for files and alternate data streams ----
    pgPc, \* new before the program starts, then run
    pgWindows, \* the build is the Windows one
    pgSummary, \* backup: p.summary.Files.New
    pgProgress, \* restore: files and bytes announced, files finished
    pgSeen, \* what was processed: main files and bytes, per counter
    \* ---- FixTime: timestamps that JSON can carry ----
    ftPc, \* idle, or done once FixTime has returned
    ftIn, \* the timestamp given to FixTime
    ftOut, \* the timestamp FixTime returned
    \* ---- OpenReader: ranged read of an object ----
    orPc, \* idle, or open once OpenReader has returned
    orIn, \* the object and the range asked for
    orOut, \* the error of OpenReader and the bytes its reader yields up to EOF
    \* ---- Windows: the backup privilege behind a once-initializer ----
    pvPc, \* per goroutine: idle, access (in GetFileSecurityDescriptor after the once), disabling (in DisableBackupPrivileges after the reset)
    pvOnceDone, \* onceBackup has run its function
    pvEnabled, \* SeBackupPrivilege is enabled in the process token
    pvError, \* backupPrivilegeError is set
    pvFresh, \* per goroutine: its call began with no DisableBackupPrivileges in progress
    \* ---- Node.Equals ----
    eqPc, \* idle, or done after a.Equals(b) and b.Equals(a) were computed
    eqA, \* the node a
    eqB, \* the node b
    eqOut \* <<a.Equals(b), b.Equals(a)>>

gaVars == <<gaOS, gaHistory, gaWarned, gaIgnored, gaHandled, gaPc, gaTodo, gaCur, gaNodes>>

rmVars == <<rmPc, rmType, rmEuid, rmFirstErr, rmSteps, rmRet>>

nwVars == <<nwPc, nwCreateSize, nwExists, nwReadonly, nwLen, nwF, nwErr, nwLog, nwRet>>

svVars == <<svPc, svKind, svData, svOld, svFinal, svTmp, svTmpOpen, svDir, svErr, svSync,
           svDefer, svRet, svPermanent, svRemoveErr, svCreateRet>>

rcVars == <<rcPc, rcRepo, rcKeys, rcSeen, rcTodo, rcRoots, rcLocked, rcCancelled, rcWorker,
           rcTreeID, rcFlushed, rcSaved, rcPrinted, rcRet>>

fwVars == <<fwPc, fwChunk, fwCreateSize, fwWr, fwErr, fwLock, fwFiles, fwOpen, fwNextH,
           fwFile, fwSparse, fwResult, fwOutOfOrder, fwMaxUsers,
           fwPrealloc>>

adVars == <<adPc, adCalls, adAttempt, adMutex, adMainPath, adMap, adLocked,
           adDisk, adStreamFirst>>

enVars == <<enPc, enCalls, enAttempt, enDisk, enWas, enList, enNeeded>>

sdVars == <<sdPc, sdPaths, sdNodes, sdReported, sdCancelled, sdRet, sdSubmitted>>

lsVars == <<lsPc, lsSubdirs, lsDirs, lsFiles, lsCalls, lsCancelled, lsFirstErr, lsRet>>

pgVars == <<pgPc, pgWindows, pgSummary, pgProgress, pgSeen>>

ftVars == <<ftPc, ftIn, ftOut>>

orVars == <<orPc, orIn, orOut>>

pvVars == <<pvPc, pvOnceDone, pvEnabled, pvError, pvFresh>>

eqVars == <<eqPc, eqA, eqB, eqOut>>

vars == <<gaVars, rmVars, nwVars, svVars, rcVars, fwVars, adVars, enVars, sdVars, lsVars, pgVars, ftVars, orVars, pvVars, eqVars>>

\* What each subsystem's actions leave alone.
notGa == <<rmVars, nwVars, svVars, rcVars, fwVars, adVars, enVars, sdVars, lsVars, pgVars, ftVars, orVars, pvVars, eqVars>>
notRm == <<gaVars, nwVars, svVars, rcVars, fwVars, adVars, enVars, sdVars, lsVars, pgVars, ftVars, orVars, pvVars, eqVars>>
notNw == <<gaVars, rmVars, svVars, rcVars, fwVars, adVars, enVars, sdVars, lsVars, pgVars, ftVars, orVars, pvVars, eqVars>>
notSv == <<gaVars, rmVars, nwVars, rcVars, fwVars, adVars, enVars, sdVars, lsVars, pgVars, ftVars, orVars, pvVars, eqVars>>
notRc == <<gaVars, rmVars, nwVars, svVars, fwVars, adVars, enVars, sdVars, lsVars, pgVars, ftVars, orVars, pvVars, eqVars>>
notFw == <<gaVars, rmVars, nwVars, svVars, rcVars, adVars, enVars, sdVars, lsVars, pgVars, ftVars, orVars, pvVars, eqVars>>
notAd == <<gaVars, rmVars, nwVars, svVars, rcVars, fwVars, enVars, sdVars, lsVars, pgVars, ftVars, orVars, pvVars, eqVars>>
notEn == <<gaVars, rmVars, nwVars, svVars, rcVars, fwVars, adVars, sdVars, lsVars, pgVars, ftVars, orVars, pvVars, eqVars>>
notSd == <<gaVars, rmVars, nwVars, svVars, rcVars, fwVars, adVars, enVars, lsVars, pgVars, ftVars, orVars, pvVars, eqVars>>
notLs == <<gaVars, rmVars, nwVars, svVars, rcVars, fwVars, adVars, enVars, sdVars, pgVars, ftVars, orVars, pvVars, eqVars>>
notPg == <<gaVars, rmVars, nwVars, svVars, rcVars, fwVars, adVars, enVars, sdVars, lsVars, ftVars, orVars, pvVars, eqVars>>
notFt == <<gaVars, rmVars, nwVars, svVars, rcVars, fwVars, adVars, enVars, sdVars, lsVars, pgVars, orVars, pvVars, eqVars>>
notOr == <<gaVars, rmVars, nwVars, svVars, rcVars, fwVars, adVars, enVars, sdVars, lsVars, pgVars, ftVars, pvVars, eqVars>>
notPv == <<gaVars, rmVars, nwVars, svVars, rcVars, fwVars, adVars, enVars, sdVars, lsVars, pgVars, ftVars, orVars, eqVars>>
notEq == <<gaVars, rmVars, nwVars, svVars, rcVars, fwVars, adVars, enVars, sdVars, lsVars, pgVars, ftVars, orVars, pvVars>>

(***************************************************************************)
(* Generic helpers                                                         *)
(***************************************************************************)
SeqsUpTo(S, n) == UNION {[1..m -> S] : m \in 0..n}

(***************************************************************************)
(* Unknown generic attributes: warn once per key                           *)
(***************************************************************************)
GaProcs == 1..2
MaxNodes == 1
MaxAttrs == 2

\* node.go:58-63: the keys node.go knows about, all of them Windows keys.
genericAttributesForOS == {"WinFileAttrib", "WinCreationTime", "WinSecurityDesc"}

\* Keys that can occur in a repository: one known key and two unknown ones.
GaKeys == {"WinFileAttrib", "FutureAttrA", "FutureAttrB"}

GaInit ==
    /\ gaOS = "unset"
    /\ gaHistory = {}
    /\ gaWarned = [k \in GaKeys |-> 0]
    /\ gaIgnored = [k \in GaKeys |-> 0]
    /\ gaHandled = [k \in GaKeys |-> 0]
    /\ gaPc = [p \in GaProcs |-> "idle"]
    /\ gaTodo = [p \in GaProcs |-> <<>>]
    /\ gaCur = [p \in GaProcs |-> "WinFileAttrib"]
    /\ gaNodes = [p \in GaProcs |-> 0]

\* The build decides which restoreGenericAttributes is compiled in.
GaBoot ==
    /\ gaOS = "unset"
    /\ gaOS' \in {"windows", "other"}
    /\ UNCHANGED <<gaHistory, gaWarned, gaIgnored, gaHandled, gaPc, gaTodo, gaCur, gaNodes>>
    /\ UNCHANGED notGa

\* node_windows.go:288-299 restoreGenericAttribute: the three Windows keys are
\* restored by their handlers, every other key goes to
\* handleUnknownGenericAttributeFound.  node_xattr.go:92-97 (and the aix,
\* netbsd, openbsd variants): every key goes there.
GoesToUnknownHandler(os, k) ==
    IF os = "windows" THEN k \notin genericAttributesForOS ELSE TRUE

\* A goroutine starts restoring the generic attributes of one node.
GaStartNode(p) ==
    /\ gaOS # "unset"
    /\ gaPc[p] = "idle"
    /\ gaNodes[p] < MaxNodes
    /\ \E attrs \in SeqsUpTo(GaKeys, MaxAttrs) :
          gaTodo' = [gaTodo EXCEPT ![p] = attrs]
    /\ gaPc' = [gaPc EXCEPT ![p] = "loop"]
    /\ UNCHANGED <<gaOS, gaHistory, gaWarned, gaIgnored, gaHandled, gaCur, gaNodes>>
    /\ UNCHANGED notGa

\* Mutant of LoadOrStoreLoaded: a map that never reports an earlier store.
LoadOrStoreNeverLoaded(history, value) == FALSE

\* node.go:757 sync.Map.LoadOrStore(value, ""): loaded is true iff the key was
\* already stored; the store itself is the update of gaHistory below.
LoadOrStoreLoaded(history, value) == value \in history

\* node.go:755-760 checkGenericAttributeNameNotHandledAndPut
checkGenericAttributeNameNotHandledAndPut(history, value) ==
    ~LoadOrStoreLoaded(history, value)

\* One iteration of the loop over node.GenericAttributes, up to and including
\* the atomic LoadOrStore of handleUnknownGenericAttributeFound (node.go:726-728).
GaHandleAttr(p) ==
    /\ gaPc[p] = "loop"
    /\ gaTodo[p] # <<>>
    /\ LET k == Head(gaTodo[p]) IN
        /\ gaTodo' = [gaTodo EXCEPT ![p] = Tail(@)]
        /\ IF GoesToUnknownHandler(gaOS, k)
           THEN /\ gaHandled' = [gaHandled EXCEPT ![k] = @ + 1]
                /\ gaHistory' = gaHistory \cup {k}
                /\ IF checkGenericAttributeNameNotHandledAndPut(gaHistory, k)
                   THEN /\ gaPc' = [gaPc EXCEPT ![p] = "log"]
                        /\ gaCur' = [gaCur EXCEPT ![p] = k]
                   ELSE UNCHANGED <<gaPc, gaCur>>
           ELSE UNCHANGED <<gaHandled, gaHistory, gaPc, gaCur>>
    /\ UNCHANGED <<gaOS, gaWarned, gaIgnored, gaNodes>>
    /\ UNCHANGED notGa

\* node.go:729-739: the message printed once for the key.
GaLog(p) ==
    /\ gaPc[p] = "log"
    /\ IF gaCur[p] \in genericAttributesForOS
       THEN /\ gaIgnored' = [gaIgnored EXCEPT ![gaCur[p]] = @ + 1]
            /\ UNCHANGED gaWarned
       ELSE /\ gaWarned' = [gaWarned EXCEPT ![gaCur[p]] = @ + 1]
            /\ UNCHANGED gaIgnored
    /\ gaPc' = [gaPc EXCEPT ![p] = "loop"]
    /\ UNCHANGED <<gaOS, gaHistory, gaHandled, gaTodo, gaCur, gaNodes>>
    /\ UNCHANGED notGa

\* The loop over the node's attributes ends.
GaNodeDone(p) ==
    /\ gaPc[p] = "loop"
    /\ gaTodo[p] = <<>>
    /\ gaPc' = [gaPc EXCEPT ![p] = "idle"]
    /\ gaNodes' = [gaNodes EXCEPT ![p] = @ + 1]
    /\ UNCHANGED <<gaOS, gaHistory, gaWarned, gaIgnored, gaHandled, gaTodo, gaCur>>
    /\ UNCHANGED notGa

GaNext ==
    \/ GaBoot
    \/ \E p \in GaProcs : GaStartNode(p)
    \/ \E p \in GaProcs : GaHandleAttr(p)
    \/ \E p \in GaProcs : GaLog(p)
    \/ \E p \in GaProcs : GaNodeDone(p)

(***************************************************************************)
(* restoreMetadata: order of the metadata steps and the error it returns   *)
(***************************************************************************)
RmNodeTypes == {"file", "dir", "symlink"}
\* os.Geteuid(): root and an ordinary user.
RmEuids == {0, 1000}

RmInit ==
    /\ rmPc = "idle"
    /\ rmType = "file"
    /\ rmEuid = 0
    /\ rmFirstErr = "nil"
    /\ rmSteps = <<>>
    /\ rmRet = "none"

\* Mutant of RmAfter: the mode bits are applied right after the owner, before
\* timestamps and attributes.
RmAfterChmodEarly(step, type) ==
    CASE step = "lchown"  -> IF type # "symlink" THEN "chmod" ELSE "times"
      [] step = "chmod"   -> "times"
      [] step = "times"   -> "xattr"
      [] step = "xattr"   -> "generic"
      [] step = "generic" -> "ret"

\* node.go:248-295: the statement that follows each metadata call of
\* restoreMetadata; fs.Chmod is skipped for symlinks (node.go:286).
RmAfter(step, type) ==
    CASE step = "lchown"  -> "times"
      [] step = "times"   -> "xattr"
      [] step = "xattr"   -> "generic"
      [] step = "generic" -> IF type # "symlink" THEN "chmod" ELSE "ret"
      [] step = "chmod"   -> "ret"

\* RestoreMetadata(path) is called for a node (node.go:239-240).
RmStart ==
    /\ rmPc = "idle"
    /\ rmType' \in RmNodeTypes
    /\ rmEuid' \in RmEuids
    /\ rmPc' = "lchown"
    /\ rmFirstErr' = "nil"
    /\ rmSteps' = <<>>
    /\ rmRet' = "none"
    /\ UNCHANGED notRm

\* Mutant of RmLchown: every error of lchown becomes firsterr, whoever runs.
RmLchownReportsAll ==
    /\ rmPc = "lchown"
    /\ \E e \in {"nil", "EPERM", "EIO"} :
        /\ rmSteps' = Append(rmSteps, <<"lchown", e>>)
        /\ rmFirstErr' = IF e = "nil" THEN rmFirstErr ELSE "lchown"
    /\ rmPc' = RmAfter("lchown", rmType)
    /\ UNCHANGED <<rmType, rmEuid, rmRet>>
    /\ UNCHANGED notRm

\* node.go:251-260: lchown; a permission error is ignored unless running as
\* root, every other error becomes firsterr.
RmLchown ==
    /\ rmPc = "lchown"
    /\ \E e \in {"nil", "EPERM", "EIO"} :
        /\ rmSteps' = Append(rmSteps, <<"lchown", e>>)
        /\ rmFirstErr' = IF e = "nil" THEN rmFirstErr
                         ELSE IF rmEuid > 0 /\ e = "EPERM" THEN rmFirstErr
                         ELSE "lchown"
    /\ rmPc' = RmAfter("lchown", rmType)
    /\ UNCHANGED <<rmType, rmEuid, rmRet>>
    /\ UNCHANGED notRm

\* node.go:262-267, 269-274, 276-281: the three calls share one shape: on an
\* error, firsterr is overwritten only if it is already set.
RmLaterStep(step) ==
    /\ rmPc = step
    /\ \E e \in {"nil", "err"} :
        /\ rmSteps' = Append(rmSteps, <<step, e>>)
        /\ rmFirstErr' = IF e # "nil" /\ rmFirstErr # "nil" THEN step ELSE rmFirstErr
    /\ rmPc' = RmAfter(step, rmType)
    /\ UNCHANGED <<rmType, rmEuid, rmRet>>
    /\ UNCHANGED notRm

RmRestoreTimestamps == RmLaterStep("times")

RmRestoreExtendedAttributes == RmLaterStep("xattr")

RmRestoreGenericAttributes == RmLaterStep("generic")

\* node.go:286-292: fs.Chmod(path, node.Mode), not for symlinks.
RmChmod == RmLaterStep("chmod")

\* node.go:294: return firsterr
RmReturn ==
    /\ rmPc = "ret"
    /\ rmRet' = rmFirstErr
    /\ rmPc' = "done"
    /\ UNCHANGED <<rmType, rmEuid, rmFirstErr, rmSteps>>
    /\ UNCHANGED notRm

\* The restorer goes on to the next node.
RmNextNode ==
    /\ rmPc = "done"
    /\ rmPc' = "idle"
    /\ UNCHANGED <<rmType, rmEuid, rmFirstErr, rmSteps, rmRet>>
    /\ UNCHANGED notRm

RmNext ==
    \/ RmStart
    \/ RmLchown
    \/ RmRestoreTimestamps
    \/ RmRestoreExtendedAttributes
    \/ RmRestoreGenericAttributes
    \/ RmChmod
    \/ RmReturn
    \/ RmNextNode

(***************************************************************************)
(* Non-Windows openFile: create, clear read-only on access denied, retry   *)
(***************************************************************************)
MaxLen == 2

NwInit ==
    /\ nwPc = "idle"
    /\ nwCreateSize = 0
    /\ nwExists = FALSE
    /\ nwReadonly = FALSE
    /\ nwLen = 0
    /\ nwF = "nil"
    /\ nwErr = "nil"
    /\ nwLog = <<>>
    /\ nwRet = <<"none", "none">>

\* os.OpenFile(path, flags, 0600) on the modelled file: the error it returns.
\* A file without write permission cannot be opened for writing; without
\* O_CREATE a missing file is ENOENT.  ioerr is any other failure (EIO, ...).
OsOpenError(flags, exists, readonly, ioerr) ==
    IF ioerr THEN "EIO"
    ELSE IF exists /\ readonly THEN "EACCES"
    ELSE IF ~exists /\ "O_CREATE" \notin flags THEN "ENOENT"
    ELSE "nil"

\* fileswriter_notwin.go:46-49 openFileWithCreate
FlagsWithCreate == {"O_CREATE", "O_TRUNC", "O_WRONLY"}

\* fileswriter_notwin.go:52-55 openFileWithTruncWrite
FlagsTruncWrite == {"O_TRUNC", "O_WRONLY"}

\* fileswriter_notwin.go:39 flags := os.O_WRONLY
FlagsWronly == {"O_WRONLY"}

\* Mutant of IsAccessDenied: every error counts as access denied.
IsAnyError(err) == err # "nil"

\* fs.IsAccessDenied(err) (fileswriter_notwin.go:27)
IsAccessDenied(err) == err = "EACCES"

\* OpenFile(createSize, path, fileInfo) is called; the target may or may not
\* exist, may be read-only and has some old content.
NwStart ==
    /\ nwPc = "idle"
    /\ nwCreateSize' \in -1..MaxLen
    /\ nwExists' \in BOOLEAN
    /\ nwReadonly' \in (IF nwExists' THEN BOOLEAN ELSE {FALSE})
    /\ nwLen' \in (IF nwExists' THEN 0..MaxLen ELSE {0})
    /\ nwF' = "nil"
    /\ nwErr' = "nil"
    /\ nwLog' = <<>>
    /\ nwRet' = <<"none", "none">>
    /\ nwPc' = IF nwCreateSize' >= 0 THEN "create" ELSE "wronly"
    /\ UNCHANGED notNw

\* The effect of one os.OpenFile with the given flags on the locals and the
\* file; only the first open of a createSize >= 0 call is followed by the
\* access-denied branch (fileswriter_notwin.go:27).
NwOpen(call, flags, mayRetry) ==
    \E ioerr \in BOOLEAN :
        LET e == OsOpenError(flags, nwExists, nwReadonly, ioerr) IN
        /\ nwErr' = e
        /\ nwF' = IF e = "nil" THEN "open" ELSE "nil"
        /\ nwExists' = (nwExists \/ e = "nil")
        /\ nwLen' = IF e = "nil" /\ "O_TRUNC" \in flags THEN 0 ELSE nwLen
        /\ nwLog' = Append(nwLog, <<call, e, flags>>)
        /\ nwPc' = IF mayRetry /\ IsAccessDenied(e) THEN "reset" ELSE "ret"
        /\ UNCHANGED <<nwCreateSize, nwReadonly, nwRet>>

\* fileswriter_notwin.go:25-27: f, err = openFileWithCreate(path)
NwOpenWithCreate ==
    /\ nwPc = "create"
    /\ NwOpen("openFileWithCreate", FlagsWithCreate, TRUE)
    /\ UNCHANGED notNw

\* fileswriter_notwin.go:32-35: err = fs.ResetPermissions(path); on an error
\* return nil, err.
NwResetPermissions ==
    /\ nwPc = "reset"
    /\ \E e \in {"nil", "EPERM"} :
        /\ nwErr' = e
        /\ nwLog' = Append(nwLog, <<"ResetPermissions", e, {}>>)
        /\ nwReadonly' = IF e = "nil" THEN FALSE ELSE nwReadonly
        /\ IF e # "nil"
           THEN /\ nwRet' = <<"nil", e>>
                /\ nwPc' = "done"
           ELSE /\ nwRet' = nwRet
                /\ nwPc' = "truncwrite"
    /\ UNCHANGED <<nwCreateSize, nwExists, nwLen, nwF>>
    /\ UNCHANGED notNw

\* fileswriter_notwin.go:36: f, err = openFileWithTruncWrite(path)
NwOpenWithTruncWrite ==
    /\ nwPc = "truncwrite"
    /\ NwOpen("openFileWithTruncWrite", FlagsTruncWrite, FALSE)
    /\ UNCHANGED notNw

\* fileswriter_notwin.go:38-41: f, err = os.OpenFile(path, os.O_WRONLY, 0600)
NwOpenWronly ==
    /\ nwPc = "wronly"
    /\ NwOpen("OpenFile(O_WRONLY)", FlagsWronly, FALSE)
    /\ UNCHANGED notNw

\* fileswriter_notwin.go:42: return file, err.  file is the named result, which
\* no statement assigns (the opens assign the local f), so it is nil.
NwReturnedFile(f) == "nil"

NwReturn ==
    /\ nwPc = "ret"
    /\ nwRet' = <<NwReturnedFile(nwF), nwErr>>
    /\ nwPc' = "done"
    /\ UNCHANGED <<nwCreateSize, nwExists, nwReadonly, nwLen, nwF, nwErr, nwLog>>
    /\ UNCHANGED notNw

\* The caller goes on; the next OpenFile can start.
NwAgain ==
    /\ nwPc = "done"
    /\ nwPc' = "idle"
    /\ UNCHANGED <<nwCreateSize, nwExists, nwReadonly, nwLen, nwF, nwErr, nwLog, nwRet>>
    /\ UNCHANGED notNw

NwNext ==
    \/ NwStart
    \/ NwOpenWithCreate
    \/ NwResetPermissions
    \/ NwOpenWithTruncWrite
    \/ NwOpenWronly
    \/ NwReturn
    \/ NwAgain

(***************************************************************************)
(* SaveWithOptions: write a temporary file, then rename it                 *)
(***************************************************************************)
MaxData == 2

\* A file of the modelled directory: absent, or present with its bytes.
Absent == [exists |-> FALSE, data |-> <<>>]

File(bytes) == [exists |-> TRUE, data |-> bytes]

\* The callers save different objects; version v of an object of n bytes.
ObjectVersions == {1, 2}

ObjectBytes(n, v) == [i \in 1..n |-> 10 * v + i]

FileTypes == {"config", "snapshot", "key", "index", "lock", "data"}

SvInit ==
    /\ svPc = "idle"
    /\ svKind = "data"
    /\ svData = <<>>
    /\ svOld = Absent
    /\ svFinal = Absent
    /\ svTmp = Absent
    /\ svTmpOpen = FALSE
    /\ svDir = FALSE
    /\ svErr = "nil"
    /\ svSync = "none"
    /\ svDefer = FALSE
    /\ svRet = "none"
    /\ svPermanent = FALSE
    /\ svRemoveErr = "none"
    /\ svCreateRet = "none"

\* file_helper.go:43-57 Create: refuses when the config file exists, otherwise
\* makes the directories.
SvCreate ==
    /\ svPc = "idle"
    /\ svCreateRet' = IF svKind = "config" /\ svFinal.exists
                      THEN "config file already exists" ELSE "nil"
    /\ svDir' = (svDir \/ svCreateRet' = "nil")
    /\ UNCHANGED <<svPc, svKind, svData, svOld, svFinal, svTmp, svTmpOpen, svErr, svSync,
                   svDefer, svRet, svPermanent, svRemoveErr>>
    /\ UNCHANGED notSv

\* SaveWithOptions(fileName, tmpFilename, rd, options) is called for a handle
\* of some type (the type belongs to the name, so it stays while the object
\* exists); the directory and the object are what earlier calls left.
SvStart ==
    /\ svPc = "idle"
    /\ svKind' \in (IF svFinal.exists THEN {svKind} ELSE FileTypes)
    /\ \E n \in 0..MaxData, v \in ObjectVersions : svData' = ObjectBytes(n, v)
    /\ svOld' = svFinal
    /\ svErr' = "nil"
    /\ svSync' = "none"
    /\ svDefer' = FALSE
    /\ svRet' = "none"
    /\ svPermanent' = FALSE
    /\ svRemoveErr' = "none"
    /\ svPc' = "open"
    /\ UNCHANGED <<svFinal, svTmp, svTmpOpen, svDir>>
    /\ UNCHANGED <<svCreateRet, notSv>>

\* file_helper.go:208-216 Remove: chmod 0666 (a permission error of the chmod
\* is ignored), then os.Remove.
SvRemove ==
    /\ svPc = "idle"
    /\ svFinal.exists
    /\ \E ok \in BOOLEAN : svFinal' = IF ok THEN Absent ELSE svFinal
    /\ UNCHANGED <<svPc, svKind, svData, svOld, svTmp, svTmpOpen, svDir, svErr, svSync,
                   svDefer, svRet, svPermanent, svRemoveErr>>
    /\ UNCHANGED <<svCreateRet, notSv>>

\* errors.WithStack(err), as every error return of SaveWithOptions wraps its
\* error: nil stays nil, any other error becomes the cause of a wrapper that
\* carries the stack.  An error is its errno and whether it is wrapped.
WithStack(err) == [errno |-> err, wrapped |-> err # "nil"]

\* errors.Is(err, target) follows the chain of wrapped errors down to the
\* errno and asks the errno (syscall.Errno.Is: EACCES and EPERM are
\* os.ErrPermission, ENOENT is os.ErrNotExist).
ErrorsIs(err, target) ==
    \/ err.errno = target
    \/ target = "ErrPermission" /\ err.errno \in {"EACCES", "EPERM"}
    \/ target = "ErrNotExist" /\ err.errno = "ENOENT"

\* os.IsPermission(err) predates errors.Is: it looks inside a *PathError,
\* *LinkError or *SyscallError only, never through another wrapper.
OsIsPermission(err) == ~err.wrapped /\ err.errno \in {"EACCES", "EPERM"}

\* Mutant of SaveMarksPermanent: Save marks no error.
SaveMarksNothing(err) == FALSE

\* file_helper.go:76-81: the deferred function wraps the error Save is about
\* to return in backoff.Permanent when it is ENOSPC or a permission error.
SaveMarksPermanent(err) == ErrorsIs(err, "ENOSPC") \/ OsIsPermission(err)

\* file_helper.go:314-316
IsNotExist(err) == ErrorsIs(err, "ErrNotExist")

\* file_helper.go:319-321
IsPermanentError(err) ==
    IsNotExist(err) \/ ErrorsIs(err, "errTooShort") \/ ErrorsIs(err, "ErrPermission")

\* options.OpenTempFile(dir, tmpFilename): ENOENT when the directory is
\* missing, otherwise it succeeds or fails with some other error.
SvOpenTempFileOutcome(after) ==
    \E e \in (IF svDir THEN {"nil", "EACCES", "ENOSPC"} ELSE {"ENOENT"}) :
        /\ svErr' = e
        /\ svTmp' = IF e = "nil" THEN File(<<>>) ELSE svTmp
        /\ svTmpOpen' = (e = "nil")
        /\ svPc' = IF e = "nil" THEN "defer"
                   ELSE IF e = "ENOENT" THEN after ELSE "return"
        /\ UNCHANGED <<svKind, svData, svOld, svFinal, svDir, svSync, svDefer, svRet,
                       svPermanent, svRemoveErr>>

\* file_helper.go:83-85
SvOpenTempFile ==
    /\ svPc = "open"
    /\ SvOpenTempFileOutcome("mkdir")
    /\ UNCHANGED <<svCreateRet, notSv>>

\* file_helper.go:85-92: the directory is missing, try to create it; when
\* that fails err stays the ENOENT of the open.
SvMkDir ==
    /\ svPc = "mkdir"
    /\ \E ok \in BOOLEAN :
        /\ svDir' = ok
        /\ svPc' = IF ok THEN "reopen" ELSE "return"
    /\ UNCHANGED <<svKind, svData, svOld, svFinal, svTmp, svTmpOpen, svErr, svSync,
                   svDefer, svRet, svPermanent, svRemoveErr>>
    /\ UNCHANGED <<svCreateRet, notSv>>

\* file_helper.go:93-100: try again, once.
SvReopenTempFile ==
    /\ svPc = "reopen"
    /\ SvOpenTempFileOutcome("return")
    /\ UNCHANGED <<svCreateRet, notSv>>

\* file_helper.go:102-111: the cleanup is deferred once f is open.
SvRegisterDefer ==
    /\ svPc = "defer"
    /\ svDefer' = TRUE
    /\ svPc' = "copy"
    /\ UNCHANGED <<svKind, svData, svOld, svFinal, svTmp, svTmpOpen, svDir, svErr, svSync,
                   svRet, svPermanent, svRemoveErr>>
    /\ UNCHANGED <<svCreateRet, notSv>>

\* file_helper.go:123 io.Copy(f, rd): one more byte reaches the temporary file.
SvCopyByte ==
    /\ svPc = "copy"
    /\ Len(svTmp.data) < Len(svData)
    /\ svTmp' = File(Append(svTmp.data, svData[Len(svTmp.data) + 1]))
    /\ UNCHANGED <<svPc, svKind, svData, svOld, svFinal, svTmpOpen, svDir, svErr, svSync,
                   svDefer, svRet, svPermanent, svRemoveErr>>
    /\ UNCHANGED <<svCreateRet, notSv>>

\* file_helper.go:123-126: io.Copy fails part-way (disk full, I/O error).
SvCopyError ==
    /\ svPc = "copy"
    /\ Len(svTmp.data) < Len(svData)
    /\ svErr' \in {"ENOSPC", "EIO"}
    /\ svPc' = "return"
    /\ UNCHANGED <<svKind, svData, svOld, svFinal, svTmp, svTmpOpen, svDir, svSync,
                   svDefer, svRet, svPermanent, svRemoveErr>>
    /\ UNCHANGED <<svCreateRet, notSv>>

\* Mutant of SanityCheckOk: the byte count is not compared.
SanityCheckSkipped(wbytes, length) == TRUE

\* file_helper.go:128: wbytes != rd.Length() is an error.
SanityCheckOk(wbytes, length) == wbytes = length

\* file_helper.go:123-130: io.Copy returns with a nil error, either after all
\* bytes or early (rd ended before rd.Length() bytes); then the sanity check.
SvCopyReturns ==
    /\ svPc = "copy"
    /\ IF SanityCheckOk(Len(svTmp.data), Len(svData))
       THEN /\ svPc' = "sync"
            /\ svErr' = "nil"
       ELSE /\ svPc' = "return"
            /\ svErr' = "wrote too few bytes"
    /\ UNCHANGED <<svKind, svData, svOld, svFinal, svTmp, svTmpOpen, svDir, svSync,
                   svDefer, svRet, svPermanent, svRemoveErr>>
    /\ UNCHANGED <<svCreateRet, notSv>>

\* file_helper.go:133-137: f.Sync(); ENOTSUP (or the macOS ENOTTY) is ignored.
SvSyncFile ==
    /\ svPc = "sync"
    /\ \E e \in {"nil", "ENOTSUP", "EIO", "ENOSPC"} :
        /\ svErr' = e
        /\ svSync' = IF e = "nil" THEN "ok" ELSE IF e = "ENOTSUP" THEN "notsup" ELSE svSync
        /\ svPc' = IF e \in {"EIO", "ENOSPC"} THEN "return" ELSE "close"
    /\ UNCHANGED <<svKind, svData, svOld, svFinal, svTmp, svTmpOpen, svDir, svDefer,
                   svRet, svPermanent, svRemoveErr>>
    /\ UNCHANGED <<svCreateRet, notSv>>

\* file_helper.go:140-142: f.Close()
SvCloseFile ==
    /\ svPc = "close"
    /\ \E e \in {"nil", "EIO", "ENOSPC"} :
        /\ svErr' = e
        /\ svPc' = IF e = "nil" THEN "rename" ELSE "return"
    /\ svTmpOpen' = FALSE
    /\ UNCHANGED <<svKind, svData, svOld, svFinal, svTmp, svDir, svSync, svDefer, svRet,
                   svPermanent, svRemoveErr>>
    /\ UNCHANGED <<svCreateRet, notSv>>

\* file_helper.go:143-145: options.Rename(f.Name(), fileName).  Nothing looks
\* at the final name first; a rename that succeeds replaces what is there.
SvRename ==
    /\ svPc = "rename"
    /\ \E e \in {"nil", "EACCES"} :
        /\ svErr' = e
        /\ svFinal' = IF e = "nil" THEN svTmp ELSE svFinal
        /\ svTmp' = IF e = "nil" THEN Absent ELSE svTmp
        /\ svPc' = IF e # "nil" THEN "return"
                   ELSE IF svSync # "notsup" THEN "fsyncdir" ELSE "readonly"
    /\ UNCHANGED <<svKind, svData, svOld, svTmpOpen, svDir, svSync, svDefer, svRet,
                   svPermanent, svRemoveErr>>
    /\ UNCHANGED <<svCreateRet, notSv>>

\* file_helper.go:148-153: options.FsyncDir(dir), unless fsync is unsupported.
SvFsyncDir ==
    /\ svPc = "fsyncdir"
    /\ \E e \in {"nil", "EIO", "EACCES"} :
        /\ svErr' = e
        /\ svPc' = IF e = "nil" THEN "readonly" ELSE "return"
    /\ UNCHANGED <<svKind, svData, svOld, svFinal, svTmp, svTmpOpen, svDir, svSync,
                   svDefer, svRet, svPermanent, svRemoveErr>>
    /\ UNCHANGED <<svCreateRet, notSv>>

\* file_helper.go:158-163: options.SetFileReadonly(fileName); a permission
\* error is ignored (return nil), any other error is returned.
SvSetFileReadonly ==
    /\ svPc = "readonly"
    /\ \E e \in {"nil", "EPERM", "EIO"} :
        svErr' = IF e # "nil" /\ ~OsIsPermission([errno |-> e, wrapped |-> FALSE])
                 THEN e ELSE "nil"
    /\ svPc' = "return"
    /\ UNCHANGED <<svKind, svData, svOld, svFinal, svTmp, svTmpOpen, svDir, svSync,
                   svDefer, svRet, svPermanent, svRemoveErr>>
    /\ UNCHANGED <<svCreateRet, notSv>>

\* Mutant of SaveCleansUp: the deferred function never cleans up.
SaveNeverCleansUp(deferred, err) == FALSE

\* file_helper.go:102-111: the deferred function, if it was registered,
\* closes and removes the temporary file when err is set.
SaveCleansUp(deferred, err) == deferred /\ err # "nil"

\* The return: every error return is errors.WithStack(err); first the cleanup
\* deferred at line 102 (if it was registered and err is set: close f, remove
\* the temporary file, ignoring a failure of the removal), then the defer of
\* line 76 marks the error.
SvReturn ==
    /\ svPc = "return"
    /\ IF SaveCleansUp(svDefer, svErr)
       THEN /\ svTmpOpen' = FALSE
            /\ IF svTmp.exists
               THEN \E removed \in BOOLEAN :
                        /\ svTmp' = IF removed THEN Absent ELSE svTmp
                        /\ svRemoveErr' = IF removed THEN "nil" ELSE "EACCES"
               ELSE /\ svTmp' = svTmp
                    /\ svRemoveErr' = "ENOENT"
       ELSE UNCHANGED <<svTmpOpen, svTmp, svRemoveErr>>
    /\ svRet' = svErr
    /\ svPermanent' = SaveMarksPermanent(WithStack(svErr))
    /\ svPc' = "returned"
    /\ UNCHANGED <<svKind, svData, svOld, svFinal, svDir, svErr, svSync, svDefer>>
    /\ UNCHANGED <<svCreateRet, notSv>>

\* The caller has the result; the backend is ready for the next call.
SvCallerContinues ==
    /\ svPc = "returned"
    /\ svPc' = "idle"
    /\ UNCHANGED <<svKind, svData, svOld, svFinal, svTmp, svTmpOpen, svDir, svErr, svSync,
                   svDefer, svRet, svPermanent, svRemoveErr>>
    /\ UNCHANGED <<svCreateRet, notSv>>

SvNext ==
    \/ SvCreate
    \/ SvRemove
    \/ SvStart
    \/ SvOpenTempFile
    \/ SvMkDir
    \/ SvReopenTempFile
    \/ SvRegisterDefer
    \/ SvCopyByte
    \/ SvCopyError
    \/ SvCopyReturns
    \/ SvSyncFile
    \/ SvCloseFile
    \/ SvRename
    \/ SvFsyncDir
    \/ SvSetFileReadonly
    \/ SvReturn
    \/ SvCallerContinues

(***************************************************************************)
(* recover: find the unreferenced root trees and save a snapshot of them   *)
(***************************************************************************)
MaxTrees == 2

TreeIds == 1..MaxTrees

\* Repositories: the tree blobs the index lists, the subtrees of each (a
\* tree is addressed by its content, so it refers to later ids only; a
\* subtree need not be in the index), the trees that cannot be loaded, and
\* the trees of the existing snapshots.
Repos ==
    {r \in [trees : SUBSET TreeIds, sub : [TreeIds -> SUBSET TreeIds],
            bad : SUBSET TreeIds, snaps : SUBSET TreeIds] :
        /\ \A t \in TreeIds : \A c \in r.sub[t] : c > t
        /\ \A t \in TreeIds \ r.trees : r.sub[t] = {}
        /\ r.bad \subseteq r.trees}

EmptyRepo == [trees |-> {}, sub |-> [t \in TreeIds |-> {}], bad |-> {}, snaps |-> {}]

RcInit ==
    /\ rcPc = "idle"
    /\ rcRepo = EmptyRepo
    /\ rcKeys = {}
    /\ rcSeen = {}
    /\ rcTodo = {}
    /\ rcRoots = {}
    /\ rcLocked = FALSE
    /\ rcCancelled = FALSE
    /\ rcWorker = "none"
    /\ rcTreeID = "unset"
    /\ rcFlushed = FALSE
    /\ rcSaved = {}
    /\ rcPrinted = 0
    /\ rcRet = "none"

\* cmd_recover.go:37-50: the command runs on some repository; os.Hostname.
RcStart ==
    /\ rcPc = "idle"
    /\ rcRet = "none"
    /\ rcRepo' \in Repos
    /\ \E ok \in BOOLEAN :
        /\ rcPc' = IF ok THEN "lock" ELSE "returned"
        /\ rcRet' = IF ok THEN "none" ELSE "hostname error"
    /\ UNCHANGED <<rcKeys, rcSeen, rcTodo, rcRoots, rcLocked, rcCancelled, rcWorker,
                   rcTreeID, rcFlushed, rcSaved, rcPrinted>>
    /\ UNCHANGED notRc

\* The user interrupts the command: ctx is cancelled.
RcCancel ==
    /\ rcPc \notin {"idle", "returned"}
    /\ ~rcCancelled
    /\ rcCancelled' = TRUE
    /\ UNCHANGED <<rcPc, rcRepo, rcKeys, rcSeen, rcTodo, rcRoots, rcLocked, rcWorker,
                   rcTreeID, rcFlushed, rcSaved, rcPrinted, rcRet>>
    /\ UNCHANGED notRc

\* Mutant of RcFailOrGo: unlock() is called after the step instead of being
\* deferred to the return of runRecover.
RcFailOrGoUnlocked(at, error, next) ==
    /\ rcPc = at
    /\ \E ok \in BOOLEAN :
        /\ rcPc' = IF ok THEN next ELSE "returned"
        /\ rcRet' = IF ok THEN rcRet ELSE error
        /\ rcLocked' = FALSE

\* A step of runRecover that either fails, and then runRecover returns its
\* error (releasing the lock: defer unlock(), line 56), or goes on.
RcFailOrGo(at, error, next) ==
    /\ rcPc = at
    /\ \E ok \in BOOLEAN :
        /\ rcPc' = IF ok THEN next ELSE "returned"
        /\ rcRet' = IF ok THEN rcRet ELSE error
        /\ rcLocked' = IF ok THEN rcLocked ELSE FALSE

\* cmd_recover.go:52-56 openWithExclusiveLock
RcOpenWithExclusiveLock ==
    /\ rcPc = "lock"
    /\ \E ok \in BOOLEAN :
        /\ rcPc' = IF ok THEN "memorize" ELSE "returned"
        /\ rcRet' = IF ok THEN rcRet ELSE "lock error"
        /\ rcLocked' = ok
    /\ UNCHANGED <<rcRepo, rcKeys, rcSeen, rcTodo, rcRoots, rcCancelled, rcWorker,
                   rcTreeID, rcFlushed, rcSaved, rcPrinted>>
    /\ UNCHANGED notRc

\* cmd_recover.go:60-63 restic.MemorizeList
RcMemorizeList ==
    /\ RcFailOrGo("memorize", "list error", "repair")
    /\ UNCHANGED <<rcRepo, rcKeys, rcSeen, rcTodo, rcRoots, rcCancelled, rcWorker,
                   rcTreeID, rcFlushed, rcSaved, rcPrinted>>
    /\ UNCHANGED notRc

\* cmd_recover.go:65-69 repository.RepairIndex
RcRepairIndex ==
    /\ RcFailOrGo("repair", "repair index error", "loadindex")
    /\ UNCHANGED <<rcRepo, rcKeys, rcSeen, rcTodo, rcRoots, rcCancelled, rcWorker,
                   rcTreeID, rcFlushed, rcSaved, rcPrinted>>
    /\ UNCHANGED notRc

\* cmd_recover.go:71-75 repo.LoadIndex
RcLoadIndex ==
    /\ RcFailOrGo("loadindex", "load index error", "listblobs")
    /\ UNCHANGED <<rcRepo, rcKeys, rcSeen, rcTodo, rcRoots, rcCancelled, rcWorker,
                   rcTreeID, rcFlushed, rcSaved, rcPrinted>>
    /\ UNCHANGED notRc

\* cmd_recover.go:79-88 repo.ListBlobs: every tree blob of the index becomes
\* a key of trees with the value false.
RcListBlobs ==
    /\ RcFailOrGo("listblobs", "list blobs error", "loadtrees")
    /\ rcKeys' = IF rcPc' = "loadtrees" THEN rcRepo.trees ELSE rcKeys
    /\ rcTodo' = IF rcPc' = "loadtrees" THEN rcRepo.trees ELSE rcTodo
    /\ UNCHANGED <<rcRepo, rcSeen, rcRoots, rcCancelled, rcWorker,
                   rcTreeID, rcFlushed, rcSaved, rcPrinted>>
    /\ UNCHANGED notRc

\* restic.LoadTree(ctx, repo, id): fails for a tree that is not in the
\* repository or cannot be read, and when ctx is cancelled.
LoadTreeFails(repo, id, cancelled) ==
    cancelled \/ id \notin repo.trees \/ id \in repo.bad

\* cmd_recover.go:92-108: one iteration of the range loop.  A key the body
\* adds to the map during the loop may or may not be visited later (Go's map
\* iteration).
RcLoadTree ==
    /\ rcPc = "loadtrees"
    /\ \E id \in rcTodo :
        IF rcCancelled
        THEN /\ rcPc' = "returned"
             /\ rcRet' = "context canceled"
             /\ rcLocked' = FALSE
             /\ UNCHANGED <<rcKeys, rcSeen, rcTodo, rcPrinted>>
        ELSE IF LoadTreeFails(rcRepo, id, rcCancelled)
        THEN /\ rcPrinted' = rcPrinted + 1
             /\ rcTodo' = rcTodo \ {id}
             /\ UNCHANGED <<rcPc, rcRet, rcLocked, rcKeys, rcSeen>>
        ELSE /\ rcSeen' = rcSeen \cup rcRepo.sub[id]
             /\ rcKeys' = rcKeys \cup rcRepo.sub[id]
             /\ \E visit \in SUBSET (rcRepo.sub[id] \ rcKeys) :
                    rcTodo' = (rcTodo \ {id}) \cup visit
             /\ UNCHANGED <<rcPc, rcRet, rcLocked, rcPrinted>>
    /\ UNCHANGED <<rcRepo, rcRoots, rcCancelled, rcWorker, rcTreeID, rcFlushed, rcSaved>>
    /\ UNCHANGED notRc

\* cmd_recover.go:109-119: the loop is over; restic.ForAllSnapshots marks the
\* tree of every existing snapshot.
RcForAllSnapshots ==
    /\ rcTodo = {}
    /\ RcFailOrGo("loadtrees", "snapshot list error", "roots")
    /\ rcSeen' = IF rcPc' = "roots" THEN rcSeen \cup rcRepo.snaps ELSE rcSeen
    /\ rcKeys' = IF rcPc' = "roots" THEN rcKeys \cup rcRepo.snaps ELSE rcKeys
    /\ UNCHANGED <<rcRepo, rcTodo, rcRoots, rcCancelled, rcWorker,
                   rcTreeID, rcFlushed, rcSaved, rcPrinted>>
    /\ UNCHANGED notRc

\* Mutant of RootsOf: every key of the map is taken for a root.
RootsOfAllKeys(keys, seen) == keys

\* cmd_recover.go:121-127: the keys whose value is false.
RootsOf(keys, seen) == keys \ seen

\* cmd_recover.go:144 and 151: the node of a root is named id.Str(), the
\* short form of the id, and tree.Insert refuses a name that is in the tree
\* already; two roots may or may not share their short form.
InsertOutcomes(roots) == IF Cardinality(roots) >= 2 THEN {"nil", "node already present"} ELSE {"nil"}

\* cmd_recover.go:121-155: collect the roots; without roots "no snapshot to
\* write", return nil; return ctx.Err() when cancelled; otherwise build the
\* tree with one directory node per root.
RcCollectRoots ==
    /\ rcPc = "roots"
    /\ rcRoots' = RootsOf(rcKeys, rcSeen)
    /\ IF rcRoots' = {}
       THEN /\ rcPc' = "returned"
            /\ rcRet' = "nil"
            /\ rcLocked' = FALSE
       ELSE IF rcCancelled
       THEN /\ rcPc' = "returned"
            /\ rcRet' = "context canceled"
            /\ rcLocked' = FALSE
       ELSE \E err \in InsertOutcomes(rcRoots') :
            IF err # "nil"
            THEN /\ rcPc' = "returned"
                 /\ rcRet' = err
                 /\ rcLocked' = FALSE
            ELSE /\ rcPc' = "upload"
                 /\ UNCHANGED <<rcRet, rcLocked>>
    /\ UNCHANGED <<rcRepo, rcKeys, rcSeen, rcTodo, rcCancelled, rcWorker,
                   rcTreeID, rcFlushed, rcSaved, rcPrinted>>
    /\ UNCHANGED notRc

\* cmd_recover.go:157-161: StartPackUploader and wg.Go start the goroutine.
RcStartUpload ==
    /\ rcPc = "upload"
    /\ rcWorker' = "savetree"
    /\ rcPc' = "wait"
    /\ UNCHANGED <<rcRepo, rcKeys, rcSeen, rcTodo, rcRoots, rcLocked, rcCancelled,
                   rcTreeID, rcFlushed, rcSaved, rcPrinted, rcRet>>
    /\ UNCHANGED notRc

\* cmd_recover.go:162-166 (goroutine): treeID, err = restic.SaveTree(...)
RcSaveTree ==
    /\ rcWorker = "savetree"
    /\ \E ok \in (IF rcCancelled THEN {FALSE} ELSE BOOLEAN) :
        /\ rcTreeID' = IF ok THEN "recovered" ELSE rcTreeID
        /\ rcWorker' = IF ok THEN "flush" ELSE "failed"
    /\ UNCHANGED <<rcPc, rcRepo, rcKeys, rcSeen, rcTodo, rcRoots, rcLocked, rcCancelled,
                   rcFlushed, rcSaved, rcPrinted, rcRet>>
    /\ UNCHANGED notRc

\* cmd_recover.go:168-172 (goroutine): err = repo.Flush(wgCtx)
RcFlush ==
    /\ rcWorker = "flush"
    /\ \E ok \in (IF rcCancelled THEN {FALSE} ELSE BOOLEAN) :
        /\ rcFlushed' = ok
        /\ rcWorker' = IF ok THEN "ok" ELSE "failed"
    /\ UNCHANGED <<rcPc, rcRepo, rcKeys, rcSeen, rcTodo, rcRoots, rcLocked, rcCancelled,
                   rcTreeID, rcSaved, rcPrinted, rcRet>>
    /\ UNCHANGED notRc

\* Mutant of WaitError: the result of wg.Wait() is dropped.
WaitErrorIgnored(worker) == "nil"

\* cmd_recover.go:174: err = wg.Wait(), the error of the goroutine.
WaitError(worker) == IF worker = "failed" THEN "Fatal: unable to save" ELSE "nil"

\* cmd_recover.go:174-177: wg.Wait() returns when the goroutine has returned.
RcWait ==
    /\ rcPc = "wait"
    /\ rcWorker \in {"ok", "failed"}
    /\ IF WaitError(rcWorker) # "nil"
       THEN /\ rcPc' = "returned"
            /\ rcRet' = WaitError(rcWorker)
            /\ rcLocked' = FALSE
       ELSE /\ rcPc' = "snapshot"
            /\ UNCHANGED <<rcRet, rcLocked>>
    /\ UNCHANGED <<rcRepo, rcKeys, rcSeen, rcTodo, rcRoots, rcCancelled, rcWorker,
                   rcTreeID, rcFlushed, rcSaved, rcPrinted>>
    /\ UNCHANGED notRc

\* cmd_recover.go:179-198 createSnapshot: NewSnapshot, sn.Tree = tree,
\* SaveSnapshot; the snapshot refers to treeID, whose tree has one directory
\* per root.
RcCreateSnapshot ==
    /\ rcPc = "snapshot"
    /\ \E ok \in (IF rcCancelled THEN {FALSE} ELSE BOOLEAN) :
        /\ rcSaved' = IF ok THEN rcSaved \cup {[tree |-> rcTreeID, dirs |-> rcRoots]}
                      ELSE rcSaved
        /\ rcRet' = IF ok THEN "nil" ELSE "Fatal: unable to save snapshot"
    /\ rcPc' = "returned"
    /\ rcLocked' = FALSE
    /\ UNCHANGED <<rcRepo, rcKeys, rcSeen, rcTodo, rcRoots, rcCancelled, rcWorker,
                   rcTreeID, rcFlushed, rcPrinted>>
    /\ UNCHANGED notRc

\* The exit status of the command for what runRecover returned: 0 for nil,
\* 10, 11 or 12 when the repository could not be opened because it does not
\* exist, is locked or the password is wrong, 1 for any other error.
ExitStatus(ret) ==
    IF ret = "nil" THEN {0}
    ELSE IF ret = "lock error" THEN {1, 10, 11, 12}
    ELSE {1}

RcNext ==
    \/ RcStart
    \/ RcCancel
    \/ RcOpenWithExclusiveLock
    \/ RcMemorizeList
    \/ RcRepairIndex
    \/ RcLoadIndex
    \/ RcListBlobs
    \/ RcLoadTree
    \/ RcForAllSnapshots
    \/ RcCollectRoots
    \/ RcStartUpload
    \/ RcSaveTree
    \/ RcFlush
    \/ RcWait
    \/ RcCreateSnapshot

(***************************************************************************)
(* filesWriter.writeToFile: concurrent chunk writes through shared handles *)
(***************************************************************************)
MaxChunks == 3

ChunkLen == 1

MaxWriters == 2

FwProcs == 1..MaxWriters

Chunks == 1..MaxChunks

\* The file of the snapshot: chunk c lies at offset (c-1)*ChunkLen and holds
\* bytes that differ from every other chunk's and from zero.
FwSize == MaxChunks * ChunkLen

ChunkOffset(c) == (c - 1) * ChunkLen

ChunkBlob(c) == [i \in 1..ChunkLen |-> 10 * c + i]

SnapshotBytes == [i \in 1..FwSize |-> 10 * (((i - 1) \div ChunkLen) + 1) + (((i - 1) % ChunkLen) + 1)]

NoEntry == [users |-> 0, h |-> 0]

FwInit ==
    /\ fwPc = [p \in FwProcs |-> "new"]
    /\ fwChunk = [p \in FwProcs |-> 0]
    /\ fwCreateSize = [p \in FwProcs |-> -1]
    /\ fwWr = [p \in FwProcs |-> 0]
    /\ fwErr = [p \in FwProcs |-> "nil"]
    /\ fwLock = 0
    /\ fwFiles = NoEntry
    /\ fwOpen = {}
    /\ fwNextH = 0
    /\ fwFile = Absent
    /\ fwSparse = FALSE
    /\ fwResult = [c \in Chunks |-> "todo"]
    /\ fwOutOfOrder = FALSE
    /\ fwMaxUsers = 0
    /\ fwPrealloc = "none"

\* fileswriter.go:32-42: a filesWriter is made for a restore; the target
\* path is free or holds an older, longer file, and the file to restore is
\* sparse or not (fileInfo.sparse).
FwNewFilesWriter ==
    /\ \A p \in FwProcs : fwPc[p] = "new"
    /\ fwPc' = [p \in FwProcs |-> "idle"]
    /\ fwFile' \in {Absent, File([i \in 1..(FwSize + 1) |-> 99])}
    /\ fwSparse' \in BOOLEAN
    /\ UNCHANGED <<fwChunk, fwCreateSize, fwWr, fwErr, fwLock, fwFiles, fwOpen, fwNextH,
                   fwResult, fwOutOfOrder, fwMaxUsers,
                   fwPrealloc>>
    /\ UNCHANGED notFw

\* The caller of writeToFile creates the file once: the call for the first
\* chunk of a file passes the file's size as createSize and is over before
\* the calls for the other chunks, which pass -1, begin.
CallerCreateSize(result) ==
    IF \A c \in Chunks : result[c] = "todo" THEN FwSize ELSE -1

CallerMayCall(result) ==
    \/ \A c \in Chunks : result[c] = "todo"
    \/ \E c \in Chunks : result[c] \notin {"todo", "running"}

\* fileswriter.go:42-43: a goroutine calls writeToFile for a chunk.
FwCall(p) ==
    /\ fwPc[p] = "idle"
    /\ CallerMayCall(fwResult)
    /\ \E c \in Chunks :
        /\ fwResult[c] = "todo"
        /\ fwChunk' = [fwChunk EXCEPT ![p] = c]
        /\ fwResult' = [fwResult EXCEPT ![c] = "running"]
    /\ fwCreateSize' = [fwCreateSize EXCEPT ![p] = CallerCreateSize(fwResult)]
    /\ fwPc' = [fwPc EXCEPT ![p] = "acquire"]
    /\ fwErr' = [fwErr EXCEPT ![p] = "nil"]
    /\ UNCHANGED <<fwWr, fwLock, fwFiles, fwOpen, fwNextH, fwFile, fwSparse, fwOutOfOrder,
                   fwMaxUsers, fwPrealloc>>
    /\ UNCHANGED notFw

\* fileswriter.go:46 and 86: bucket.lock.Lock()
FwLockBucket(p) ==
    /\ fwPc[p] \in {"acquire", "release"}
    /\ fwLock = 0
    /\ fwLock' = p
    /\ fwPc' = [fwPc EXCEPT ![p] = IF fwPc[p] = "acquire" THEN "acquiring" ELSE "releasing"]
    /\ UNCHANGED <<fwChunk, fwCreateSize, fwWr, fwErr, fwFiles, fwOpen, fwNextH, fwFile,
                   fwSparse, fwResult, fwOutOfOrder, fwMaxUsers,
                   fwPrealloc>>
    /\ UNCHANGED notFw

\* fileswriter.go:116-126 openFile: the flags and os.OpenFile.  With
\* O_CREATE|O_TRUNC the file exists and is empty afterwards; with O_WRONLY
\* alone a missing file is an error.  Any open may fail for other reasons.
OpenFileOutcomes(createSize, file) ==
    IF createSize >= 0
    THEN {[err |-> "nil", file |-> File(<<>>)], [err |-> "EACCES", file |-> file]}
    ELSE IF file.exists
    THEN {[err |-> "nil", file |-> file], [err |-> "EACCES", file |-> file]}
    ELSE {[err |-> "ENOENT", file |-> file]}

\* truncateSparse(f, size): f.Truncate(size), the file has size zero bytes.
TruncateTo(file, size) ==
    File([i \in 1..size |-> IF i <= Len(file.data) THEN file.data[i] ELSE 0])

\* fs.PreallocateFile(f, size): the space is reserved and the file reaches
\* size bytes, or the platform has nothing to do, or the call fails and the
\* file is as it was.
PreallocateFile(file, size) ==
    {[err |-> "nil", file |-> TruncateTo(file, size)],
     [err |-> "nil", file |-> file],
     [err |-> "ENOSPC", file |-> file]}

\* Mutant of acquireWriterAfterPreallocate: the error is returned.
acquireWriterPreallocateFatal(err) == err

\* fileswriter.go:70-82: the error acquireWriter returns after
\* PreallocateFile returned err; the error is logged and nothing else.
acquireWriterAfterPreallocate(err) == "nil"

\* fileswriter.go:45-83 acquireWriter, from after Lock to the deferred
\* Unlock, and lines 97-100.
FwAcquireWriter(p) ==
    /\ fwPc[p] = "acquiring"
    /\ fwLock' = 0
    /\ IF fwFiles.users > 0
       THEN \* lines 49-52
            /\ fwFiles' = [fwFiles EXCEPT !.users = @ + 1]
            /\ fwWr' = [fwWr EXCEPT ![p] = fwFiles.h]
            /\ fwPc' = [fwPc EXCEPT ![p] = "write"]
            /\ fwMaxUsers' = IF fwFiles.users + 1 > fwMaxUsers THEN fwFiles.users + 1
                             ELSE fwMaxUsers
            /\ UNCHANGED <<fwOpen, fwNextH, fwFile, fwResult, fwChunk, fwPrealloc>>
       ELSE \E o \in OpenFileOutcomes(fwCreateSize[p], fwFile) :
            IF o.err # "nil"
            THEN \* lines 54-57
                 /\ fwPc' = [fwPc EXCEPT ![p] = "idle"]
                 /\ fwResult' = [fwResult EXCEPT ![fwChunk[p]] = o.err]
                 /\ fwChunk' = [fwChunk EXCEPT ![p] = 0]
                 /\ UNCHANGED <<fwFiles, fwWr, fwOpen, fwNextH, fwFile, fwMaxUsers,
                                fwPrealloc>>
            ELSE \* lines 59-82
                 /\ fwNextH' = fwNextH + 1
                 /\ fwOpen' = fwOpen \cup {fwNextH + 1}
                 /\ fwFiles' = [users |-> 1, h |-> fwNextH + 1]
                 /\ fwMaxUsers' = IF fwMaxUsers < 1 THEN 1 ELSE fwMaxUsers
                 /\ IF fwCreateSize[p] >= 0 /\ fwSparse
                    THEN \E ok \in BOOLEAN :
                         IF ok
                         THEN /\ fwFile' = TruncateTo(o.file, fwCreateSize[p])
                              /\ fwWr' = [fwWr EXCEPT ![p] = fwNextH + 1]
                              /\ fwPc' = [fwPc EXCEPT ![p] = "write"]
                              /\ UNCHANGED <<fwResult, fwChunk, fwPrealloc>>
                         ELSE \* lines 65-68: return nil, err
                              /\ fwFile' = o.file
                              /\ fwPc' = [fwPc EXCEPT ![p] = "idle"]
                              /\ fwResult' = [fwResult EXCEPT ![fwChunk[p]] = "truncate error"]
                              /\ fwChunk' = [fwChunk EXCEPT ![p] = 0]
                              /\ UNCHANGED <<fwWr, fwPrealloc>>
                    ELSE IF fwCreateSize[p] >= 0
                    THEN \* lines 69-79: fs.PreallocateFile(wr.File, createSize)
                         \E pre \in PreallocateFile(o.file, fwCreateSize[p]) :
                            /\ fwFile' = pre.file
                            /\ fwPrealloc' = IF pre.err = "nil" THEN "ok" ELSE "failed"
                            /\ IF acquireWriterAfterPreallocate(pre.err) = "nil"
                               THEN \* line 82: return wr, nil
                                    /\ fwWr' = [fwWr EXCEPT ![p] = fwNextH + 1]
                                    /\ fwPc' = [fwPc EXCEPT ![p] = "write"]
                                    /\ UNCHANGED <<fwResult, fwChunk>>
                               ELSE /\ fwPc' = [fwPc EXCEPT ![p] = "idle"]
                                    /\ fwResult' = [fwResult EXCEPT ![fwChunk[p]] =
                                                        acquireWriterAfterPreallocate(pre.err)]
                                    /\ fwChunk' = [fwChunk EXCEPT ![p] = 0]
                                    /\ UNCHANGED fwWr
                    ELSE \* line 62: createSize < 0, the file is left as opened
                         /\ fwFile' = o.file
                         /\ fwWr' = [fwWr EXCEPT ![p] = fwNextH + 1]
                         /\ fwPc' = [fwPc EXCEPT ![p] = "write"]
                         /\ UNCHANGED <<fwResult, fwChunk, fwPrealloc>>
    /\ fwCreateSize' = [fwCreateSize EXCEPT ![p] = IF fwPc'[p] = "idle" THEN -1 ELSE @]
    /\ UNCHANGED <<fwErr, fwSparse, fwOutOfOrder>>
    /\ UNCHANGED notFw

\* Mutant of WriteOffset: the blob is appended, its offset is ignored.
WriteOffsetAppend(offset, file) == Len(file.data)

\* fileswriter.go:102 wr.WriteAt(blob, offset): the position written.
WriteOffset(offset, file) == offset

\* os.File.WriteAt: n bytes of blob are stored from position at on, the file
\* grows (with zeros) as far as needed.
WriteAt(file, blob, at, n) ==
    LET newLen == IF at + n > Len(file.data) THEN at + n ELSE Len(file.data)
    IN  File([i \in 1..newLen |->
                IF i > at /\ i <= at + n THEN blob[i - at]
                ELSE IF i <= Len(file.data) THEN file.data[i] ELSE 0])

\* fileswriter.go:102: WriteAt succeeds, or fails after a part of the blob.
FwWriteAt(p) ==
    /\ fwPc[p] = "write"
    /\ \E n \in 0..ChunkLen :
        /\ fwFile' = WriteAt(fwFile, ChunkBlob(fwChunk[p]),
                             WriteOffset(ChunkOffset(fwChunk[p]), fwFile), n)
        /\ fwErr' = [fwErr EXCEPT ![p] = IF n = ChunkLen THEN "nil" ELSE "EIO"]
    /\ fwOutOfOrder' = (fwOutOfOrder \/ \E c \in Chunks :
                            /\ c > fwChunk[p]
                            /\ Len(fwFile.data) > ChunkOffset(c)
                            /\ fwFile.data[ChunkOffset(c) + 1] = ChunkBlob(c)[1])
    /\ fwPc' = [fwPc EXCEPT ![p] = "release"]
    /\ UNCHANGED <<fwChunk, fwCreateSize, fwWr, fwLock, fwFiles, fwOpen, fwNextH, fwSparse,
                   fwResult, fwMaxUsers,
                   fwPrealloc>>
    /\ UNCHANGED notFw

\* Mutant of FwReleaseWriter: every release deletes the entry and closes the
\* handle, whatever the number of users.
FwReleaseWriterAlwaysCloses(p) ==
    /\ fwPc[p] = "releasing"
    /\ fwLock' = 0
    /\ fwFiles' = NoEntry
    /\ fwOpen' = fwOpen \ {fwWr[p]}
    /\ fwResult' = [fwResult EXCEPT ![fwChunk[p]] = fwErr[p]]
    /\ fwPc' = [fwPc EXCEPT ![p] = "idle"]
    /\ fwWr' = [fwWr EXCEPT ![p] = 0]
    /\ fwChunk' = [fwChunk EXCEPT ![p] = 0]
    /\ fwErr' = [fwErr EXCEPT ![p] = "nil"]
    /\ fwCreateSize' = [fwCreateSize EXCEPT ![p] = -1]
    /\ UNCHANGED <<fwNextH, fwFile, fwSparse, fwOutOfOrder, fwMaxUsers,
                   fwPrealloc>>
    /\ UNCHANGED notFw

\* fileswriter.go:85-95 releaseWriter, from after Lock to the deferred
\* Unlock, and lines 104-110: the error of WriteAt wins over that of Close.
FwReleaseWriter(p) ==
    /\ fwPc[p] = "releasing"
    /\ fwLock' = 0
    /\ \E closeErr \in {"nil", "close error"} :
        /\ IF fwFiles.users = 1
           THEN /\ fwFiles' = NoEntry
                /\ fwOpen' = fwOpen \ {fwWr[p]}
           ELSE /\ fwFiles' = [fwFiles EXCEPT !.users = @ - 1]
                /\ closeErr = "nil"
                /\ UNCHANGED fwOpen
        /\ fwResult' = [fwResult EXCEPT ![fwChunk[p]] =
                            IF fwErr[p] # "nil" THEN fwErr[p] ELSE closeErr]
    /\ fwPc' = [fwPc EXCEPT ![p] = "idle"]
    /\ fwWr' = [fwWr EXCEPT ![p] = 0]
    /\ fwChunk' = [fwChunk EXCEPT ![p] = 0]
    /\ fwErr' = [fwErr EXCEPT ![p] = "nil"]
    /\ fwCreateSize' = [fwCreateSize EXCEPT ![p] = -1]
    /\ UNCHANGED <<fwNextH, fwFile, fwSparse, fwOutOfOrder, fwMaxUsers,
                   fwPrealloc>>
    /\ UNCHANGED notFw

FwCallAny == \E p \in FwProcs : FwCall(p)

FwLockBucketAny == \E p \in FwProcs : FwLockBucket(p)

FwAcquireWriterAny == \E p \in FwProcs : FwAcquireWriter(p)

FwWriteAtAny == \E p \in FwProcs : FwWriteAt(p)

FwReleaseWriterAny == \E p \in FwProcs : FwReleaseWriter(p)

FwNext ==
    \/ FwNewFilesWriter
    \/ FwCallAny
    \/ FwLockBucketAny
    \/ FwAcquireWriterAny
    \/ FwWriteAtAny
    \/ FwReleaseWriterAny

(***************************************************************************)
(* Windows: restoring a main file and its alternate data streams           *)
(***************************************************************************)
MaxStreams == 2

AdsChunks == 2

\* The parts of one file: 0 is the main file, 1..MaxStreams its streams.
\* Each part is a file of its own for the restorer, with a path of its own.
AdParts == 0..MaxStreams

AdStreams == 1..MaxStreams

\* The content of a part on disk: Gone (no such stream), Old (what the
\* target held before the restore), or the set of chunks written since the
\* last truncation; the snapshot's content is all chunks of the part.
Gone == {-1}

Old == {0}

SnapshotContent == 1..AdsChunks

NoTarget == [exists |-> FALSE, readonly |-> FALSE, main |-> Gone,
             streams |-> [t \in AdStreams |-> Gone]]

OldTargets ==
    {[exists |-> TRUE, readonly |-> ro, main |-> Old, streams |-> [t \in AdStreams |-> st]] :
        ro \in BOOLEAN, st \in {Gone, Old}}

AdInit ==
    /\ adPc = [p \in AdParts |-> "new"]
    /\ adCalls = [p \in AdParts |-> 0]
    /\ adAttempt = [p \in AdParts |-> 0]
    /\ adMutex = [p \in AdParts |-> 0]
    /\ adMainPath = [p \in AdParts |-> FALSE]
    /\ adMap = 0
    /\ adLocked = {}
    /\ adDisk = NoTarget
    /\ adStreamFirst = FALSE

\* The restore begins: the target does not exist, or it holds an older
\* version of the file, with or without its streams, read-only or not.
AdRestoreTo ==
    /\ \A p \in AdParts : adPc[p] = "new"
    /\ adPc' = [p \in AdParts |-> "idle"]
    /\ adDisk' \in {NoTarget} \cup OldTargets
    /\ UNCHANGED <<adCalls, adAttempt, adMutex, adMainPath, adMap, adLocked, adStreamFirst>>
    /\ UNCHANGED notAd

AdTargetExists(disk, p) == disk.exists /\ (p = 0 \/ disk.streams[p] # Gone)

\* The content of part p becomes c.
AdSetContent(disk, p, c) ==
    IF p = 0 THEN [disk EXCEPT !.main = c]
    ELSE [disk EXCEPT !.streams[p] = c]

AdContent(disk, p) == IF p = 0 THEN disk.main ELSE disk.streams[p]

\* Mutant of openFileWithTruncWrite: the flags include os.O_CREATE.
openFileWithTruncWriteBlindCreate == [create |-> TRUE]

\* restorer_windows.go:183-186: os.O_CREATE | os.O_TRUNC | os.O_WRONLY
openFileWithCreate == [create |-> TRUE]

\* restorer_windows.go:189-192: os.O_TRUNC | os.O_WRONLY
openFileWithTruncWrite == [create |-> FALSE]

\* os.OpenFile of part p for writing with O_TRUNC (restorer_windows.go:28-43).
\* A read-only main file denies access to itself and to its streams.
\* Without O_CREATE a missing target is an IsNotExist error.  With O_CREATE a
\* stream is attached to the main file, which is created with size 0 when it
\* is missing; creating the main file over an existing one empties it and
\* can remove its streams.
OsOpenFile(disk, p, flags) ==
    IF disk.exists /\ disk.readonly
    THEN IF AdTargetExists(disk, p) \/ flags.create
         THEN {[err |-> "access denied", disk |-> disk]}
         ELSE {[err |-> "access denied", disk |-> disk], [err |-> "not exist", disk |-> disk]}
    ELSE IF AdTargetExists(disk, p)
    THEN IF flags.create /\ p = 0
         THEN {[err |-> "nil", disk |-> [disk EXCEPT !.main = {}]],
               [err |-> "nil", disk |-> [disk EXCEPT !.main = {},
                                                     !.streams = [t \in AdStreams |-> Gone]]]}
         ELSE {[err |-> "nil", disk |-> AdSetContent(disk, p, {})]}
    ELSE IF flags.create
    THEN {[err |-> "nil",
           disk |-> AdSetContent([disk EXCEPT !.exists = TRUE,
                                              !.main = IF disk.exists THEN disk.main ELSE {}],
                                 p, {})]}
    ELSE {[err |-> "not exist", disk |-> disk]}

\* The restorer restores each part with one writeToFile call per chunk; the
\* first call of a part creates the file (createSize >= 0).
AdCreateSizeGiven(calls) == calls = 0

\* restorer_windows.go:109-115 and 47-59: createSize < 0, os.OpenFile with
\* O_WRONLY.  The main path returned is the unset named result, so after an
\* access-denied error ClearReadonly("") fails and OpenFile returns its error.
AdOpenWronly(p) ==
    /\ adPc[p] = "idle"
    /\ adCalls[p] < AdsChunks
    /\ ~AdCreateSizeGiven(adCalls[p])
    /\ adPc' = [adPc EXCEPT ![p] = IF AdTargetExists(adDisk, p) /\ ~adDisk.readonly
                                   THEN "write" ELSE "failed"]
    /\ UNCHANGED <<adCalls, adAttempt, adMutex, adMainPath, adMap, adLocked,
                   adDisk, adStreamFirst>>
    /\ UNCHANGED notAd

\* fileswriter.go:42-54 and restorer_windows.go:44-46,63-84: writeToFile for
\* the first chunk of part p calls OpenFile with createSize >= 0, or OpenFile
\* calls openFileImpl again; restorer_windows.go:237-241 GetOrCreateMutex: the
\* read under RLock.
AdGetMutex(p) ==
    /\ adPc[p] = "idle"
    /\ adCalls[p] < AdsChunks
    /\ AdCreateSizeGiven(adCalls[p])
    /\ adAttempt' = [adAttempt EXCEPT ![p] = IF @ = 2 THEN 2 ELSE 1]
    /\ IF adMap # 0
       THEN /\ adMutex' = [adMutex EXCEPT ![p] = adMap]
            /\ adPc' = [adPc EXCEPT ![p] = "lock"]
       ELSE /\ adPc' = [adPc EXCEPT ![p] = "newmutex"]
            /\ UNCHANGED adMutex
    /\ UNCHANGED <<adCalls, adMainPath, adMap, adLocked, adDisk, adStreamFirst>>
    /\ UNCHANGED notAd

\* restorer_windows.go:248 &sync.Mutex{}: a mutex distinct from every mutex a
\* goroutine still refers to (the map has no entry when it is made).
NewMutex(inUse) == CHOOSE m \in 1..(MaxStreams + 2) : \A q \in AdParts : inUse[q] # m

\* restorer_windows.go:242-253 GetOrCreateMutex: under Lock, the second look
\* and the new mutex.
AdNewMutex(p) ==
    /\ adPc[p] = "newmutex"
    /\ IF adMap # 0
       THEN /\ adMutex' = [adMutex EXCEPT ![p] = adMap]
            /\ UNCHANGED adMap
       ELSE /\ adMap' = NewMutex(adMutex)
            /\ adMutex' = [adMutex EXCEPT ![p] = NewMutex(adMutex)]
    /\ adPc' = [adPc EXCEPT ![p] = "lock"]
    /\ UNCHANGED <<adCalls, adAttempt, adMainPath, adLocked, adDisk, adStreamFirst>>
    /\ UNCHANGED notAd

\* restorer_windows.go:85 mutex.Lock()
AdLock(p) ==
    /\ adPc[p] = "lock"
    /\ adMutex[p] \notin adLocked
    /\ adLocked' = adLocked \cup {adMutex[p]}
    /\ adPc' = [adPc EXCEPT ![p] = "truncwrite"]
    /\ UNCHANGED <<adCalls, adAttempt, adMutex, adMainPath, adMap, adDisk,
                   adStreamFirst>>
    /\ UNCHANGED notAd

\* restorer_windows.go:47-58: where an access-denied error of openFileImpl
\* leads: to ClearReadonly after the first call, out of OpenFile after the
\* retry.
AdAfterDenied(attempt) == IF attempt = 1 THEN "denied" ELSE "failed"

\* Mutant of AdLeave: openFileImpl returns without mutex.Unlock().
AdLeaveLocked(p, o, knowsMain) ==
    /\ adLocked' = adLocked
    /\ adMutex' = [adMutex EXCEPT ![p] = 0]
    /\ adDisk' = o.disk
    /\ adPc' = [adPc EXCEPT ![p] = IF o.err = "nil" THEN "write"
                                   ELSE IF o.err = "access denied"
                                   THEN AdAfterDenied(adAttempt[p])
                                   ELSE "failed"]
    /\ adMainPath' = [adMainPath EXCEPT ![p] = knowsMain /\ adPc'[p] = "denied"]
    /\ adAttempt' = [adAttempt EXCEPT ![p] = IF adPc'[p] = "denied" THEN 1 ELSE 0]
    /\ adStreamFirst' = adStreamFirst

\* openFileImpl returns with the outcome o of its last open (deferred
\* mutex.Unlock, restorer_windows.go:86): knowsMain tells whether the return
\* statement is one that returns the main path (line 104) or the unset named
\* result (line 115).
AdLeave(p, o, knowsMain) ==
    /\ adLocked' = adLocked \ {adMutex[p]}
    /\ adMutex' = [adMutex EXCEPT ![p] = 0]
    /\ adDisk' = o.disk
    /\ adPc' = [adPc EXCEPT ![p] = IF o.err = "nil" THEN "write"
                                   ELSE IF o.err = "access denied"
                                   THEN AdAfterDenied(adAttempt[p])
                                   ELSE "failed"]
    /\ adMainPath' = [adMainPath EXCEPT ![p] = knowsMain /\ adPc'[p] = "denied"]
    /\ adAttempt' = [adAttempt EXCEPT ![p] = IF adPc'[p] = "denied" THEN 1 ELSE 0]
    /\ adStreamFirst' = (adStreamFirst \/ (o.err = "nil" /\ p # 0 /\ adCalls[0] = 0
                                           /\ adPc[0] \notin {"write", "release"}))

\* restorer_windows.go:93-108 and 145-150: the first openFileWithTruncWrite;
\* when the part exists the file it opened is returned.
AdTruncWrite(p) ==
    /\ adPc[p] = "truncwrite"
    /\ \E o \in OsOpenFile(adDisk, p, openFileWithTruncWrite) :
        IF o.err = "not exist"
        THEN /\ adPc' = [adPc EXCEPT ![p] = "create"]
             /\ UNCHANGED <<adLocked, adDisk, adMainPath, adStreamFirst, adAttempt, adMutex>>
        ELSE AdLeave(p, o, TRUE)
    /\ UNCHANGED <<adCalls, adMap>>
    /\ UNCHANGED notAd

\* restorer_windows.go:151-175 handleCreateFileAds for a part that did not
\* exist: a stream is opened with openFileWithCreate; for the main file
\* openFileWithTruncWrite looks again.
AdHandleCreate(p) ==
    /\ adPc[p] = "create"
    /\ IF p # 0
       THEN \E o \in OsOpenFile(adDisk, p, openFileWithCreate) : AdLeave(p, o, FALSE)
       ELSE \E o \in OsOpenFile(adDisk, p, openFileWithTruncWrite) :
            IF o.err = "not exist"
            THEN /\ adPc' = [adPc EXCEPT ![p] = "createmain"]
                 /\ UNCHANGED <<adLocked, adDisk, adMainPath, adStreamFirst, adAttempt,
                                adMutex>>
            ELSE AdLeave(p, o, FALSE)
    /\ UNCHANGED <<adCalls, adMap>>
    /\ UNCHANGED notAd

\* restorer_windows.go:162-166: the main file still does not exist,
\* openFileWithCreate(path).
AdCreateMain(p) ==
    /\ adPc[p] = "createmain"
    /\ \E o \in OsOpenFile(adDisk, p, openFileWithCreate) : AdLeave(p, o, FALSE)
    /\ UNCHANGED <<adCalls, adMap>>
    /\ UNCHANGED notAd

\* restorer_windows.go:47-58: fs.ClearReadonly(mainPath) and, when it
\* succeeds, the one retry; it fails for the empty path (GetFileAttributes,
\* as in unnamed/part_002:614-632).
AdClearReadonly(p) ==
    /\ adPc[p] = "denied"
    /\ IF adMainPath[p]
       THEN /\ adDisk' = [adDisk EXCEPT !.readonly = FALSE]
            /\ adAttempt' = [adAttempt EXCEPT ![p] = 2]
            /\ adPc' = [adPc EXCEPT ![p] = "idle"]
       ELSE /\ adPc' = [adPc EXCEPT ![p] = "failed"]
            /\ adAttempt' = [adAttempt EXCEPT ![p] = 0]
            /\ UNCHANGED adDisk
    /\ adMainPath' = [adMainPath EXCEPT ![p] = FALSE]
    /\ UNCHANGED <<adCalls, adMutex, adMap, adLocked, adStreamFirst>>
    /\ UNCHANGED notAd

\* restorer_windows.go:205-217 CleanupPath, removeMutex: the entry of the
\* main path is deleted.
removeMutex(map) == 0

\* The mutex of a main path is removed on the last close of a handle: the
\* writer that closes the handle of a part calls CleanupPath(path).
CleanupOnLastClose(map) == removeMutex(map)

\* fileswriter.go:102-108: WriteAt of the chunk; what is written to a stream
\* that was removed is lost.  When WriteAt fails, releaseWriter closes the
\* handle and writeToFile returns the error.
AdWriteAt(p) ==
    /\ adPc[p] = "write"
    /\ \E ok \in BOOLEAN :
        IF ok
        THEN /\ adDisk' = IF AdTargetExists(adDisk, p)
                          THEN AdSetContent(adDisk, p,
                                            AdContent(adDisk, p) \cup {adCalls[p] + 1})
                          ELSE adDisk
             /\ adPc' = [adPc EXCEPT ![p] = "release"]
             /\ UNCHANGED adMap
        ELSE /\ adMap' = CleanupOnLastClose(adMap)
             /\ adPc' = [adPc EXCEPT ![p] = "failed"]
             /\ UNCHANGED adDisk
    /\ UNCHANGED <<adCalls, adAttempt, adMutex, adMainPath, adLocked, adStreamFirst>>
    /\ UNCHANGED notAd

\* fileswriter.go:85-95 and 110 releaseWriter: the only user closes the
\* handle.
AdRelease(p) ==
    /\ adPc[p] = "release"
    /\ adMap' = CleanupOnLastClose(adMap)
    /\ adCalls' = [adCalls EXCEPT ![p] = @ + 1]
    /\ adPc' = [adPc EXCEPT ![p] = "idle"]
    /\ UNCHANGED <<adAttempt, adMutex, adMainPath, adLocked, adDisk, adStreamFirst>>
    /\ UNCHANGED notAd

AdOpenWronlyAny == \E p \in AdParts : AdOpenWronly(p)

AdGetMutexAny == \E p \in AdParts : AdGetMutex(p)

AdNewMutexAny == \E p \in AdParts : AdNewMutex(p)

AdLockAny == \E p \in AdParts : AdLock(p)

AdTruncWriteAny == \E p \in AdParts : AdTruncWrite(p)

AdHandleCreateAny == \E p \in AdParts : AdHandleCreate(p)

AdCreateMainAny == \E p \in AdParts : AdCreateMain(p)

AdClearReadonlyAny == \E p \in AdParts : AdClearReadonly(p)

AdWriteAtAny == \E p \in AdParts : AdWriteAt(p)

AdReleaseAny == \E p \in AdParts : AdRelease(p)

AdNext ==
    \/ AdRestoreTo
    \/ AdOpenWronlyAny
    \/ AdGetMutexAny
    \/ AdNewMutexAny
    \/ AdLockAny
    \/ AdTruncWriteAny
    \/ AdHandleCreateAny
    \/ AdCreateMainAny
    \/ AdClearReadonlyAny
    \/ AdWriteAtAny
    \/ AdReleaseAny

(***************************************************************************)
(* Windows with EFS encryption: OpenFile of unnamed/part_002               *)
(***************************************************************************)
\* The target of the restore: as for restorer_windows.go, with the encrypted
\* attribute of the file and a mark that the file was unlinked since the
\* restore began.
EnNoTarget ==
    [exists |-> FALSE, readonly |-> FALSE, encrypted |-> FALSE, unlinked |-> FALSE,
     main |-> Gone, streams |-> [t \in AdStreams |-> Gone]]

EnOldTargets ==
    {[exists |-> TRUE, readonly |-> ro, encrypted |-> en, unlinked |-> FALSE,
      main |-> Old, streams |-> [t \in AdStreams |-> st]] :
        ro \in BOOLEAN, en \in BOOLEAN, st \in {Gone, Old}}

EnInit ==
    /\ enPc = [p \in AdParts |-> "new"]
    /\ enCalls = [p \in AdParts |-> 0]
    /\ enAttempt = [p \in AdParts |-> 0]
    /\ enDisk = EnNoTarget
    /\ enWas = EnNoTarget
    /\ enList = {}
    /\ enNeeded = FALSE

\* The restore begins: the snapshot's file has the streams of adsValues
\* (TypeHasADS, part_002:594-599) and asks for encryption or not
\* (part_002:602-606); the file and each stream of the list is restored.
EnRestoreTo ==
    /\ \A p \in AdParts : enPc[p] = "new"
    /\ enDisk' \in {EnNoTarget} \cup EnOldTargets
    /\ enWas' = enDisk'
    /\ enList' \in SUBSET AdStreams
    /\ enNeeded' \in BOOLEAN
    /\ enPc' = [p \in AdParts |-> IF p = 0 \/ p \in enList' THEN "idle" ELSE "none"]
    /\ UNCHANGED <<enCalls, enAttempt>>
    /\ UNCHANGED notEn

\* part_002:457-460: os.O_TRUNC | os.O_WRONLY
openFileWithoutCreate == [create |-> FALSE]

\* os.Remove of the main path (part_002:195, 398, 523): the file goes with
\* all its streams, or the removal fails; a missing file is an IsNotExist
\* error, which the callers ignore.
OsRemove(disk) ==
    IF ~disk.exists
    THEN {[err |-> "nil", disk |-> disk]}
    ELSE {[err |-> "nil", disk |-> [EnNoTarget EXCEPT !.unlinked = TRUE]],
          [err |-> "remove failed", disk |-> disk]}

\* part_002:508-519 createEncryptedFile: CreateFile with CREATE_ALWAYS and
\* FILE_ATTRIBUTE_ENCRYPTED, then CloseHandle.  A file it creates is
\* encrypted; the attribute of a file that exists is not changed.
createEncryptedFile(disk, p) ==
    {[err |-> "create failed", disk |-> disk]} \cup
    {[err |-> o.err,
      disk |-> IF disk.exists THEN o.disk ELSE [o.disk EXCEPT !.encrypted = TRUE]] :
        o \in OsOpenFile(disk, p, openFileWithCreate)}

\* part_002:522-529
removeAndCreateEncryptedFile(disk, p) ==
    UNION {IF r.err # "nil" THEN {r} ELSE createEncryptedFile(r.disk, p) : r \in OsRemove(disk)}

\* "err = step(); if err != nil { return nil, err }; return open(path)":
\* the open that follows the outcomes outs of a step.
OpenAfter(outs, p, flags) ==
    UNION {IF r.err # "nil" THEN {r} ELSE OsOpenFile(r.disk, p, flags) : r \in outs}

\* part_002:493-505 isFileEncrypted on the outcome o of a successful open:
\* file.Stat() can fail.
isFileEncrypted(o) == {o, [err |-> "stat error", disk |-> o.disk]}

\* Mutant of deduceEncryptionHandlingFlags: a file that exists is reused
\* whatever its encryption.
deduceEncryptionAlwaysSame(isAlreadyExists, isEncryptionNeeded, isAlreadyEncrypted) ==
    IF isAlreadyExists THEN "isSameEncryption"
    ELSE IF isEncryptionNeeded THEN "isAddEncryption" ELSE "isRemoveEncryption"

\* part_002:463-490
deduceEncryptionHandlingFlags(isAlreadyExists, isEncryptionNeeded, isAlreadyEncrypted) ==
    IF isAlreadyExists
    THEN IF isEncryptionNeeded
         THEN IF isAlreadyEncrypted THEN "isSameEncryption" ELSE "isAddEncryption"
         ELSE IF isAlreadyEncrypted THEN "isRemoveEncryption" ELSE "isSameEncryption"
    ELSE IF isEncryptionNeeded THEN "isAddEncryption" ELSE "isRemoveEncryption"

\* part_002:148-158
handleCreateFileNonAdsSameEncryption(disk, p, isAlreadyExists) ==
    IF isAlreadyExists
    THEN {[err |-> "nil", disk |-> disk]}
    ELSE OsOpenFile(disk, p, openFileWithCreate)

\* part_002:161-183
handleCreateFileNonAdsAddEncryption(disk, p, isAlreadyExists) ==
    IF isAlreadyExists
    THEN OpenAfter(removeAndCreateEncryptedFile(disk, p), p, openFileWithoutCreate)
    ELSE OpenAfter(createEncryptedFile(disk, p), p, openFileWithoutCreate)

\* part_002:186-204
handleCreateFileNonAdsRemoveEncryption(disk, p, isAlreadyExists) ==
    IF isAlreadyExists
    THEN OpenAfter(OsRemove(disk), p, openFileWithCreate)
    ELSE OsOpenFile(disk, p, openFileWithCreate)

\* part_002:129-145
handleCreateFileNonAds(disk, p, isEncryptionNeeded, isAlreadyEncrypted, isAlreadyExists) ==
    LET flag == deduceEncryptionHandlingFlags(isAlreadyExists, isEncryptionNeeded,
                                              isAlreadyEncrypted)
    IN  CASE flag = "isSameEncryption" ->
                handleCreateFileNonAdsSameEncryption(disk, p, isAlreadyExists)
          [] flag = "isAddEncryption" ->
                handleCreateFileNonAdsAddEncryption(disk, p, isAlreadyExists)
          [] flag = "isRemoveEncryption" ->
                handleCreateFileNonAdsRemoveEncryption(disk, p, isAlreadyExists)

\* part_002:241-284: part 0 is the main file (hasAds), the others are streams
\* (isAds).
handleCreateFileAdsSameEncryption(disk, p, isEncryptionNeeded, isAlreadyExists) ==
    IF isAlreadyExists
    THEN {[err |-> "nil", disk |-> disk]}
    ELSE IF p # 0
    THEN OsOpenFile(disk, p, openFileWithCreate)
    ELSE UNION {IF o.err = "not exist"
                THEN IF isEncryptionNeeded
                     THEN OpenAfter(createEncryptedFile(o.disk, p), p, openFileWithoutCreate)
                     ELSE OsOpenFile(o.disk, p, openFileWithCreate)
                ELSE {o} :
                    o \in OsOpenFile(disk, p, openFileWithoutCreate)}

\* part_002:287-354: the file is looked at again; when it is not encrypted
\* yet, the MAIN file is removed and created encrypted, and the stream, if
\* this is one, is created on it.
handleCreateFileAdsAddEncryption(disk, p, isAlreadyExists) ==
    IF isAlreadyExists
    THEN UNION {IF o.err = "not exist"
                THEN OpenAfter(createEncryptedFile(o.disk, p), p, openFileWithoutCreate)
                ELSE IF o.err # "nil"
                THEN {o}
                ELSE UNION {IF s.err # "nil" \/ s.disk.encrypted
                            THEN {s}
                            ELSE OpenAfter(removeAndCreateEncryptedFile(s.disk, 0), p,
                                           IF p # 0 THEN openFileWithCreate
                                           ELSE openFileWithoutCreate) :
                                s \in isFileEncrypted(o)} :
                    o \in OsOpenFile(disk, p, openFileWithoutCreate)}
    ELSE OpenAfter(createEncryptedFile(disk, p), p, openFileWithoutCreate)

\* part_002:357-410: the file is looked at again; when it is still encrypted
\* the MAIN file is removed, and the path is opened with the create flag.
handleCreateFileAdsRemoveEncryption(disk, p, isAlreadyExists) ==
    IF isAlreadyExists
    THEN UNION {IF o.err = "not exist"
                THEN OsOpenFile(o.disk, p, openFileWithCreate)
                ELSE IF o.err # "nil"
                THEN {o}
                ELSE UNION {IF s.err # "nil" \/ ~s.disk.encrypted
                            THEN {s}
                            ELSE OpenAfter(OsRemove(s.disk), p, openFileWithCreate) :
                                s \in isFileEncrypted(o)} :
                    o \in OsOpenFile(disk, p, openFileWithoutCreate)}
    ELSE OsOpenFile(disk, p, openFileWithCreate)

\* The streams on disk that are not in the snapshot's list.
ExtraStreams(disk, adsValues) == {t \in AdStreams : disk.streams[t] # Gone /\ t \notin adsValues}

\* part_002:416-428 removeExtraStreams: nothing is removed when
\* fs.GetADStreamNames fails, and an os.Remove that fails is only logged, so
\* any part R of the extra streams is what gets removed.
removeExtraStreams(disk, adsValues) ==
    {[disk EXCEPT !.streams = [t \in AdStreams |-> IF t \in R THEN Gone ELSE disk.streams[t]]] :
        R \in SUBSET ExtraStreams(disk, adsValues)}

\* part_002:207-238
handleCreateFileAds(disk, p, adsValues, isEncryptionNeeded, isAlreadyEncrypted, isAlreadyExists) ==
    LET flag == deduceEncryptionHandlingFlags(isAlreadyExists, isEncryptionNeeded,
                                              isAlreadyEncrypted)
        outs == CASE flag = "isSameEncryption" ->
                        handleCreateFileAdsSameEncryption(disk, p, isEncryptionNeeded,
                                                          isAlreadyExists)
                  [] flag = "isAddEncryption" ->
                        handleCreateFileAdsAddEncryption(disk, p, isAlreadyExists)
                  [] flag = "isRemoveEncryption" ->
                        handleCreateFileAdsRemoveEncryption(disk, p, isAlreadyExists)
    IN  IF p = 0 /\ isAlreadyExists
        THEN UNION {{[err |-> o.err, disk |-> d] : d \in removeExtraStreams(o.disk, adsValues)} :
                        o \in outs}
        ELSE outs

\* part_002:116-126
handleCreateFile(disk, p, adsValues, isEncryptionNeeded, isAlreadyEncrypted, isAlreadyExists) ==
    IF p = 0 /\ adsValues = {}
    THEN handleCreateFileNonAds(disk, p, isEncryptionNeeded, isAlreadyEncrypted,
                                isAlreadyExists)
    ELSE handleCreateFileAds(disk, p, adsValues, isEncryptionNeeded, isAlreadyEncrypted,
                             isAlreadyExists)

\* part_002:53-113 openFileImpl with createSize >= 0, from mutex.Lock() to
\* the deferred mutex.Unlock(): the outcomes [err, disk] of the call for part
\* p on the disk.
openFileImpl(disk, p, adsValues, isEncryptionNeeded) ==
    UNION {IF o.err = "not exist"
           THEN handleCreateFile(o.disk, p, adsValues, isEncryptionNeeded, FALSE, FALSE)
           ELSE IF o.err # "nil"
           THEN {o}
           ELSE UNION {IF s.err # "nil"
                       THEN {s}
                       ELSE handleCreateFile(s.disk, p, adsValues, isEncryptionNeeded,
                                             s.disk.encrypted, TRUE) :
                           s \in isFileEncrypted(o)} :
               o \in OsOpenFile(disk, p, openFileWithoutCreate)}

\* part_002:36-50 OpenFile with createSize >= 0 (the first writeToFile call of
\* the part, fileswriter.go:42-54): openFileImpl, the first time or again
\* after clearReadonly.
EnOpenFile(p) ==
    /\ enPc[p] = "idle"
    /\ enCalls[p] < AdsChunks
    /\ AdCreateSizeGiven(enCalls[p])
    /\ \E o \in openFileImpl(enDisk, p, enList, enNeeded) :
        /\ enDisk' = o.disk
        /\ enPc' = [enPc EXCEPT ![p] = IF o.err = "nil" THEN "write"
                                       ELSE IF o.err = "access denied"
                                       THEN AdAfterDenied(IF enAttempt[p] = 2 THEN 2 ELSE 1)
                                       ELSE "failed"]
    /\ enAttempt' = [enAttempt EXCEPT ![p] = 0]
    /\ UNCHANGED <<enCalls, enWas, enList, enNeeded>>
    /\ UNCHANGED notEn

\* part_002:36-50 and 614-636: clearReadonly(isAds, path, file) after an
\* access-denied error, on the main path (fs.TrimAds); GetFileAttributes or
\* SetFileAttributes can fail, and then OpenFile returns that error.
EnClearReadonly(p) ==
    /\ enPc[p] = "denied"
    /\ \E ok \in BOOLEAN :
        IF ok /\ enDisk.exists
        THEN /\ enDisk' = [enDisk EXCEPT !.readonly = FALSE]
             /\ enAttempt' = [enAttempt EXCEPT ![p] = 2]
             /\ enPc' = [enPc EXCEPT ![p] = "idle"]
        ELSE /\ enPc' = [enPc EXCEPT ![p] = "failed"]
             /\ UNCHANGED <<enDisk, enAttempt>>
    /\ UNCHANGED <<enCalls, enWas, enList, enNeeded>>
    /\ UNCHANGED notEn

\* part_002:108-112: createSize < 0, os.OpenFile with O_WRONLY.
EnOpenWronly(p) ==
    /\ enPc[p] = "idle"
    /\ enCalls[p] < AdsChunks
    /\ ~AdCreateSizeGiven(enCalls[p])
    /\ enPc' = [enPc EXCEPT ![p] = IF AdTargetExists(enDisk, p) /\ ~enDisk.readonly
                                   THEN "write" ELSE "failed"]
    /\ UNCHANGED <<enCalls, enAttempt, enDisk, enWas, enList, enNeeded>>
    /\ UNCHANGED notEn

\* fileswriter.go:85-110: WriteAt of the chunk and releaseWriter; what is
\* written to a handle whose file was removed is lost.
EnWriteAt(p) ==
    /\ enPc[p] = "write"
    /\ \E ok \in BOOLEAN :
        IF ok
        THEN /\ enDisk' = IF AdTargetExists(enDisk, p)
                          THEN AdSetContent(enDisk, p,
                                            AdContent(enDisk, p) \cup {enCalls[p] + 1})
                          ELSE enDisk
             /\ enCalls' = [enCalls EXCEPT ![p] = @ + 1]
             /\ enPc' = [enPc EXCEPT ![p] = "idle"]
        ELSE /\ enPc' = [enPc EXCEPT ![p] = "failed"]
             /\ UNCHANGED <<enDisk, enCalls>>
    /\ UNCHANGED <<enAttempt, enWas, enList, enNeeded>>
    /\ UNCHANGED notEn

EnOpenFileAny == \E p \in AdParts : EnOpenFile(p)

EnClearReadonlyAny == \E p \in AdParts : EnClearReadonly(p)

EnOpenWronlyAny == \E p \in AdParts : EnOpenWronly(p)

EnWriteAtAny == \E p \in AdParts : EnWriteAt(p)

EnNext ==
    \/ EnRestoreTo
    \/ EnOpenFileAny
    \/ EnClearReadonlyAny
    \/ EnOpenWronlyAny
    \/ EnWriteAtAny

(***************************************************************************)
(* SaveDir: save the children of a directory, then its tree                *)
(***************************************************************************)
MaxEntries == 2

\* Names are strings of bytes: "a", "a-", "aa"; a stream is named ":s".
\* '-' is 45, ':' is 58, 'a' is 97, 's' is 115.
SdFileNames == {<<97>>, <<97, 45>>, <<97, 97>>}

SdStream == <<58, 115>>

\* The order of Go's strings: byte by byte, a proper prefix first.
StringLess(a, b) ==
    \E k \in 1..(Len(b)) :
        /\ \A i \in 1..(k - 1) : i <= Len(a) /\ a[i] = b[i]
        /\ \/ k = Len(a) + 1
           \/ k <= Len(a) /\ a[k] < b[k]

\* Mutant of SortStrings: the paths stay in the order they were collected.
SortStringsNot(paths) == paths

\* sort.Strings(paths), as an insertion sort.
RECURSIVE SortStrings(_)
SortStrings(paths) ==
    IF paths = <<>> THEN <<>>
    ELSE LET x == paths[Len(paths)]
             rest == SortStrings(SubSeq(paths, 1, Len(paths) - 1))
             before == SelectSeq(rest, LAMBDA y : ~StringLess(x, y))
             after == SelectSeq(rest, LAMBDA y : StringLess(x, y))
         IN  before \o <<x>> \o after

\* archiver_windows.go:95-122 getPathsIncludingADS: every name, followed by
\* the streams fs.GetADStreamNames reports for it (none when it fails).
RECURSIVE getPathsIncludingADS(_, _)
getPathsIncludingADS(names, withStream) ==
    IF names = <<>> THEN <<>>
    ELSE <<Head(names)>>
         \o (IF Head(names) \in withStream THEN <<Head(names) \o SdStream>> ELSE <<>>)
         \o getPathsIncludingADS(Tail(names), withStream)

\* Mutant of CtxErr: the context is never seen cancelled.
CtxErrNever(cancelled) == "nil"

\* ctx.Err()
CtxErr(cancelled) == IF cancelled THEN "context canceled" ELSE "nil"

SdInit ==
    /\ sdPc = "idle"
    /\ sdPaths = <<>>
    /\ sdNodes = <<>>
    /\ sdReported = {}
    /\ sdCancelled = FALSE
    /\ sdRet = "none"
    /\ sdSubmitted = FALSE

\* archiver_unix.go:32-47, archiver_windows.go:40-56: SaveDir up to the loop.
\* readdirnames returns the names in any order; on Windows the streams of
\* the files are added before the sort.
SdSaveDir ==
    /\ sdPc = "idle"
    /\ \E err \in {"nil", "nodeFromFileInfo error", "readdirnames error"},
          windows \in BOOLEAN,
          set \in SUBSET SdFileNames :
        /\ Cardinality(set) <= MaxEntries
        /\ \E names \in [1..Cardinality(set) -> set], withStream \in SUBSET set :
            /\ \A i, j \in DOMAIN names : i # j => names[i] # names[j]
            /\ windows \/ withStream = {}
            /\ IF err = "nil"
               THEN /\ sdPaths' = SortStrings(IF windows
                                              THEN getPathsIncludingADS(names, withStream)
                                              ELSE names)
                    /\ sdPc' = "loop"
                    /\ sdRet' = "none"
               ELSE /\ set = {}
                    /\ sdPaths' = <<>>
                    /\ sdPc' = "returned"
                    /\ sdRet' = err
    /\ sdNodes' = <<>>
    /\ sdReported' = {}
    /\ sdSubmitted' = FALSE
    /\ UNCHANGED sdCancelled
    /\ UNCHANGED notSd

\* archiver_unix.go:49-79, archiver_windows.go:58-86: one turn of the loop.
\* The context is polled, then arch.Save handles the child: it returns a
\* node, or excluded, or an error that arch.error ignores (nil) or keeps.
SdSaveChild ==
    /\ sdPc = "loop"
    /\ sdPaths # <<>>
    /\ IF CtxErr(sdCancelled) # "nil"
       THEN /\ sdPc' = "returned"
            /\ sdRet' = CtxErr(sdCancelled)
            /\ UNCHANGED <<sdPaths, sdNodes, sdReported>>
       ELSE \E saved \in {"node", "excluded", "ignored error", "error"} :
            /\ sdPaths' = Tail(sdPaths)
            /\ sdNodes' = IF saved = "node"
                          THEN Append(sdNodes, [name |-> Head(sdPaths), error |-> ""])
                          ELSE sdNodes
            /\ sdReported' = IF saved = "ignored error"
                             THEN sdReported \cup {Head(sdPaths)} ELSE sdReported
            /\ sdPc' = IF saved = "error" THEN "returned" ELSE "loop"
            /\ sdRet' = IF saved = "error" THEN "error saving a target" ELSE sdRet
    /\ UNCHANGED <<sdCancelled, sdSubmitted>>
    /\ UNCHANGED notSd

\* archiver_unix.go:81-83, archiver_windows.go:88-90: after the loop the
\* tree goes to the tree saver and SaveDir returns nil.
SdSaveTree ==
    /\ sdPc = "loop"
    /\ sdPaths = <<>>
    /\ sdSubmitted' = TRUE
    /\ sdRet' = "nil"
    /\ sdPc' = "returned"
    /\ UNCHANGED <<sdPaths, sdNodes, sdReported, sdCancelled>>
    /\ UNCHANGED notSd

\* The owner of the context cancels it, at any moment of the backup.
SdCancel ==
    /\ sdPc # "returned"
    /\ ~sdCancelled
    /\ sdCancelled' = TRUE
    /\ UNCHANGED <<sdPc, sdPaths, sdNodes, sdReported, sdRet, sdSubmitted>>
    /\ UNCHANGED notSd

SdNext ==
    \/ SdSaveDir
    \/ SdSaveChild
    \/ SdSaveTree
    \/ SdCancel

(***************************************************************************)
(* List: run a callback for each file of a backend directory               *)
(***************************************************************************)
MaxDirs == 2

MaxFiles == 2

LsInit ==
    /\ lsPc = "idle"
    /\ lsSubdirs = FALSE
    /\ lsDirs = 0
    /\ lsFiles = 0
    /\ lsCalls = 0
    /\ lsCancelled = FALSE
    /\ lsFirstErr = "nil"
    /\ lsRet = "none"

\* file_helper.go:227-232: a not-exist error becomes nil, any other result
\* of the visit is returned.
ListResult(err) == IF IsNotExist([errno |-> err, wrapped |-> FALSE]) THEN "nil" ELSE err

\* List returns with the result err of visitDirs or visitFiles.
LsReturn(err) ==
    /\ lsPc' = "returned"
    /\ lsRet' = ListResult(err)
    /\ lsFirstErr' = err

\* file_helper.go:220-225, 240-256 and 268-293: List opens basedir and reads
\* its entries (the names of the subdirectories, or the files).
LsList ==
    /\ lsPc = "idle"
    /\ \E subdirs \in BOOLEAN, err \in {"nil", "ENOENT", "EIO"},
          dirs \in 0..MaxDirs, files \in 0..MaxFiles :
        /\ lsSubdirs' = subdirs
        /\ lsCalls' = 0
        /\ IF err # "nil"
           THEN /\ dirs = 0 /\ files = 0
                /\ LsReturn(err)
                /\ lsDirs' = 0 /\ lsFiles' = 0
           ELSE /\ lsRet' = "none"
                /\ lsFirstErr' = "nil"
                /\ IF subdirs
                   THEN /\ files = 0
                        /\ lsDirs' = dirs /\ lsFiles' = 0
                        /\ lsPc' = "dirs"
                   ELSE /\ dirs = 0
                        /\ lsDirs' = 0 /\ lsFiles' = files
                        /\ lsPc' = "files"
    /\ UNCHANGED lsCancelled
    /\ UNCHANGED notLs

\* file_helper.go:258-264 and 269-293: visitDirs goes to the next
\* subdirectory (opens it, skips it when it is not a directory, reads its
\* files), or returns ctx.Err() after the last one.
LsVisitDir ==
    /\ lsPc = "dirs"
    /\ IF lsDirs = 0
       THEN /\ LsReturn(CtxErr(lsCancelled))
            /\ UNCHANGED <<lsDirs, lsFiles>>
       ELSE \E err \in {"nil", "not a directory", "ENOENT", "EIO"}, files \in 0..MaxFiles :
            /\ lsDirs' = lsDirs - 1
            /\ IF err \in {"ENOENT", "EIO"}
               THEN /\ files = 0
                    /\ LsReturn(err)
                    /\ UNCHANGED lsFiles
               ELSE /\ err = "not a directory" => files = 0
                    /\ lsFiles' = files
                    /\ lsPc' = IF err = "nil" THEN "files" ELSE "dirs"
                    /\ UNCHANGED <<lsRet, lsFirstErr>>
    /\ UNCHANGED <<lsSubdirs, lsCalls, lsCancelled>>
    /\ UNCHANGED notLs

\* file_helper.go:295-310: one turn of the loop of visitFiles: the context
\* is polled, then fn gets the file; after the last file visitFiles
\* returns nil.
LsVisitFile ==
    /\ lsPc = "files"
    /\ IF lsFiles = 0
       THEN /\ IF lsSubdirs
               THEN /\ lsPc' = "dirs"
                    /\ UNCHANGED <<lsRet, lsFirstErr>>
               ELSE LsReturn("nil")
            /\ UNCHANGED <<lsFiles, lsCalls>>
       ELSE IF CtxErr(lsCancelled) # "nil"
       THEN /\ LsReturn(CtxErr(lsCancelled))
            /\ UNCHANGED <<lsFiles, lsCalls>>
       ELSE \E err \in {"nil", "fn error", "ENOENT"} :
            /\ lsCalls' = lsCalls + 1
            /\ lsFiles' = lsFiles - 1
            /\ IF err = "nil"
               THEN UNCHANGED <<lsPc, lsRet, lsFirstErr>>
               ELSE LsReturn(err)
    /\ UNCHANGED <<lsSubdirs, lsDirs, lsCancelled>>
    /\ UNCHANGED notLs

\* The owner of the context cancels it, at any moment of the listing.
LsCancel ==
    /\ lsPc # "returned"
    /\ ~lsCancelled
    /\ lsCancelled' = TRUE
    /\ UNCHANGED <<lsPc, lsSubdirs, lsDirs, lsFiles, lsCalls, lsFirstErr, lsRet>>
    /\ UNCHANGED notLs

LsNext ==
    \/ LsList
    \/ LsVisitDir
    \/ LsVisitFile
    \/ LsCancel

(***************************************************************************)
(* Progress counters for files and alternate data streams                  *)
(***************************************************************************)
MaxItems == 3

MaxSize == 2

\* A file node of a snapshot: a main file, or a stream entry (it carries the
\* generic attribute TypeIsADS), and its size.
PgNodes == [isAds : BOOLEAN, size : 0..MaxSize]

\* node.IsMainFile(): the node has no TypeIsADS attribute.
IsMainFile(node) == ~node.isAds

\* progress.AddFile(size): one more file and its bytes.
AddFile(progress, size) ==
    [progress EXCEPT !.filesTotal = @ + 1, !.bytesTotal = @ + size]

\* progress.AddSize(size): the bytes only.
AddSize(progress, size) == [progress EXCEPT !.bytesTotal = @ + size]

\* ui/backup/progress_notwin.go:9-11 (other systems) and 28-32 (Windows)
incrementNewFiles(new, node, windows) ==
    IF windows THEN (IF IsMainFile(node) THEN new + 1 ELSE new) ELSE new + 1

\* Mutant of addFile: every node is announced as a file.
addFileAlways(progress, node, size, windows) == AddFile(progress, size)

\* restorer_windows.go:7-14 (Windows) and part_005:9-11 (other systems)
addFile(progress, node, size, windows) ==
    IF windows
    THEN (IF IsMainFile(node) THEN AddFile(progress, size) ELSE AddSize(progress, size))
    ELSE AddFile(progress, size)

\* ui/restore/progress_notwin.go:9-11 (other systems) and 18-22 (Windows)
incrementFilesFinished(progress, node, windows) ==
    IF windows
    THEN (IF ~node.isAds THEN [progress EXCEPT !.filesFinished = @ + 1] ELSE progress)
    ELSE [progress EXCEPT !.filesFinished = @ + 1]

PgInit ==
    /\ pgPc = "new"
    /\ pgWindows = FALSE
    /\ pgSummary = 0
    /\ pgProgress = [filesTotal |-> 0, bytesTotal |-> 0, filesFinished |-> 0]
    /\ pgSeen = [backup |-> 0, backupMain |-> 0, added |-> 0, addedMain |-> 0,
                 bytes |-> 0, finished |-> 0, finishedMain |-> 0]

\* The program is one of the two builds.
PgStart ==
    /\ pgPc = "new"
    /\ pgPc' = "run"
    /\ pgWindows' \in BOOLEAN
    /\ UNCHANGED <<pgSummary, pgProgress, pgSeen>>
    /\ UNCHANGED notPg

\* The main-file count of a node.
PgMain(node) == IF IsMainFile(node) THEN 1 ELSE 0

\* Backup: a new file node is completed.
PgBackupNewFile ==
    /\ pgPc = "run"
    /\ pgSeen.backup < MaxItems
    /\ \E node \in PgNodes :
        /\ pgSummary' = incrementNewFiles(pgSummary, node, pgWindows)
        /\ pgSeen' = [pgSeen EXCEPT !.backup = @ + 1, !.backupMain = @ + PgMain(node)]
    /\ UNCHANGED <<pgPc, pgWindows, pgProgress>>
    /\ UNCHANGED notPg

\* Restore: a file node is announced to the progress tracker.
PgAddFile ==
    /\ pgPc = "run"
    /\ pgSeen.added < MaxItems
    /\ \E node \in PgNodes :
        /\ pgProgress' = addFile(pgProgress, node, node.size, pgWindows)
        /\ pgSeen' = [pgSeen EXCEPT !.added = @ + 1, !.addedMain = @ + PgMain(node),
                                    !.bytes = @ + node.size]
    /\ UNCHANGED <<pgPc, pgWindows, pgSummary>>
    /\ UNCHANGED notPg

\* Restore: all bytes of a file node are written.
PgFileFinished ==
    /\ pgPc = "run"
    /\ pgSeen.finished < pgSeen.added
    /\ \E node \in PgNodes :
        /\ pgProgress' = incrementFilesFinished(pgProgress, node, pgWindows)
        /\ pgSeen' = [pgSeen EXCEPT !.finished = @ + 1, !.finishedMain = @ + PgMain(node)]
    /\ UNCHANGED <<pgPc, pgWindows, pgSummary>>
    /\ UNCHANGED notPg

PgNext ==
    \/ PgStart
    \/ PgBackupNewFile
    \/ PgAddFile
    \/ PgFileFinished

(***************************************************************************)
(* FixTime: timestamps that JSON can carry                                 *)
(***************************************************************************)
\* Years on both sides of the legal range, leap years among them (-4, 0,
\* 2024 and 10000 are leap years of Go's proleptic Gregorian calendar).
FtYears == {-4, -1, 0, 2023, 2024, 9999, 10000, 10001}

\* Go's isLeap
IsLeap(year) == year % 4 = 0 /\ (year % 100 # 0 \/ year % 400 = 0)

\* Go's daysIn(month, year)
DaysIn(month, year) ==
    IF month = 2 THEN (IF IsLeap(year) THEN 29 ELSE 28)
    ELSE IF month \in {4, 6, 9, 11} THEN 30 ELSE 31

\* The timestamps of the model: a date and the second of the day.
FtTimes ==
    {t \in [year : FtYears, month : 1..12, day : 1..31, second : {0, 86399}] :
        t.day <= DaysIn(t.month, t.year)}

\* time.Time.AddDate(years, 0, 0): time.Date with the year changed; Date
\* normalises a day beyond the end of the month into the next month.
AddDate(t, years) ==
    LET year == t.year + years
    IN  IF t.day <= DaysIn(t.month, year)
        THEN [t EXCEPT !.year = year]
        ELSE [t EXCEPT !.year = IF t.month = 12 THEN year + 1 ELSE year,
                       !.month = IF t.month = 12 THEN 1 ELSE t.month + 1,
                       !.day = t.day - DaysIn(t.month, year)]

\* node.go:388-397
FixTime(t) ==
    IF t.year < 0 THEN AddDate(t, -t.year)
    ELSE IF t.year > 9999 THEN AddDate(t, -(t.year - 9999))
    ELSE t

FtInit ==
    /\ ftPc = "idle"
    /\ ftIn = [year |-> 0, month |-> 1, day |-> 1, second |-> 0]
    /\ ftOut = [year |-> 0, month |-> 1, day |-> 1, second |-> 0]

\* node.go:400-405: MarshalJSON fixes a timestamp of the node.
FtFixTime ==
    /\ ftPc = "idle"
    /\ ftIn' \in FtTimes
    /\ ftOut' = FixTime(ftIn')
    /\ ftPc' = "done"
    /\ UNCHANGED notFt

\* MarshalJSON has used the result; the next timestamp can come.
FtAgain ==
    /\ ftPc = "done"
    /\ ftPc' = "idle"
    /\ ftIn' = [year |-> 0, month |-> 1, day |-> 1, second |-> 0]
    /\ ftOut' = ftIn'
    /\ UNCHANGED notFt

FtNext ==
    \/ FtFixTime
    \/ FtAgain

(***************************************************************************)
(* OpenReader: ranged read of an object                                    *)
(***************************************************************************)
\* Reading r to the end: the bytes of the file from the position of the
\* handle, at most limit of them (limit < 0: no limit).
ReadAll(data, pos, limit) ==
    LET last == IF limit >= 0 /\ pos + limit < Len(data) THEN pos + limit ELSE Len(data)
    IN  SubSeq(data, pos + 1, last)

\* Mutant of OpenReader: the handle is not moved to the offset.
OpenReaderNoSeek(data, length, offset, err) ==
    IF err # "nil" THEN [err |-> err, bytes |-> <<>>]
    ELSE IF Len(data) < offset + length THEN [err |-> "errTooShort", bytes |-> <<>>]
    ELSE [err |-> "nil", bytes |-> ReadAll(data, 0, IF length > 0 THEN length ELSE -1)]

\* file_helper.go:166-196 OpenReader; err is the error of openFile, Stat or
\* Seek.  With length > 0 the handle is wrapped by LimitReadCloser.
OpenReader(data, length, offset, err) ==
    IF err \in {"open error", "stat error"} THEN [err |-> err, bytes |-> <<>>]
    ELSE IF Len(data) < offset + length THEN [err |-> "errTooShort", bytes |-> <<>>]
    ELSE IF offset > 0 /\ err = "seek error" THEN [err |-> err, bytes |-> <<>>]
    ELSE [err |-> "nil",
          bytes |-> ReadAll(data, IF offset > 0 THEN offset ELSE 0,
                            IF length > 0 THEN length ELSE -1)]

OrInit ==
    /\ orPc = "idle"
    /\ orIn = [data |-> <<>>, length |-> 0, offset |-> 0]
    /\ orOut = [err |-> "nil", bytes |-> <<>>]

\* Load opens a reader for a range of an object and reads it to the end.
OrOpenReader ==
    /\ orPc = "idle"
    /\ \E n \in 0..MaxData, v \in ObjectVersions,
          length \in 0..(MaxData + 1), offset \in 0..(MaxData + 1),
          err \in {"nil", "open error", "stat error", "seek error"} :
        /\ orIn' = [data |-> ObjectBytes(n, v), length |-> length, offset |-> offset]
        /\ orOut' = OpenReader(ObjectBytes(n, v), length, offset, err)
    /\ orPc' = "open"
    /\ UNCHANGED notOr

\* The reader is closed.
OrClose ==
    /\ orPc = "open"
    /\ orPc' = "idle"
    /\ orIn' = [data |-> <<>>, length |-> 0, offset |-> 0]
    /\ orOut' = [err |-> "nil", bytes |-> <<>>]
    /\ UNCHANGED notOr

OrNext ==
    \/ OrOpenReader
    \/ OrClose

(***************************************************************************)
(* Windows: the backup privilege behind a once-initializer                 *)
(***************************************************************************)
\* The goroutines that call into the package.
PvProcs == 1..3

PvInit ==
    /\ pvPc = [p \in PvProcs |-> "idle"]
    /\ pvOnceDone = FALSE
    /\ pvEnabled = FALSE
    /\ pvError = FALSE
    /\ pvFresh = [p \in PvProcs |-> FALSE]

\* part_001:89-93 GetFileSecurityDescriptor: onceBackup.Do(enableBackupPrivilege)
\* (part_001:176-181; the once runs it under its own lock), then the test of
\* backupPrivilegeError, which nothing ever clears.
PvGetFileSecurityDescriptor(p) ==
    /\ pvPc[p] = "idle"
    /\ IF pvOnceDone
       THEN UNCHANGED <<pvEnabled, pvError>>
       ELSE \E ok \in BOOLEAN :
            /\ pvEnabled' = (pvEnabled \/ ok)
            /\ pvError' = (pvError \/ ~ok)
    /\ pvOnceDone' = TRUE
    /\ pvPc' = [pvPc EXCEPT ![p] = IF pvError' THEN "idle" ELSE "access"]
    /\ pvFresh' = [pvFresh EXCEPT ![p] = \A q \in PvProcs : pvPc[q] # "disabling"]
    /\ UNCHANGED notPv

\* part_001:95-117: the file is opened and its security descriptor read.
PvAccess(p) ==
    /\ pvPc[p] = "access"
    /\ pvPc' = [pvPc EXCEPT ![p] = "idle"]
    /\ pvFresh' = [pvFresh EXCEPT ![p] = FALSE]
    /\ UNCHANGED <<pvOnceDone, pvEnabled, pvError>>
    /\ UNCHANGED notPv

\* part_001:251-253 DisableBackupPrivileges: onceBackup = sync.Once{}
PvResetOnce(p) ==
    /\ pvPc[p] = "idle"
    /\ pvOnceDone' = FALSE
    /\ pvPc' = [pvPc EXCEPT ![p] = "disabling"]
    /\ pvFresh' = [q \in PvProcs |-> FALSE]
    /\ UNCHANGED <<pvEnabled, pvError>>
    /\ UNCHANGED notPv

\* part_001:254 and 265-281: the privilege is disabled in the token, unless
\* the adjustment fails.
PvDisable(p) ==
    /\ pvPc[p] = "disabling"
    /\ \E ok \in BOOLEAN : pvEnabled' = (pvEnabled /\ ~ok)
    /\ pvPc' = [pvPc EXCEPT ![p] = "idle"]
    /\ UNCHANGED <<pvOnceDone, pvError, pvFresh>>
    /\ UNCHANGED notPv

PvNext ==
    \/ \E p \in PvProcs : PvGetFileSecurityDescriptor(p)
    \/ \E p \in PvProcs : PvAccess(p)
    \/ \E p \in PvProcs : PvResetOnce(p)
    \/ \E p \in PvProcs : PvDisable(p)

(***************************************************************************)
(* Node.Equals and sameAttributes                                          *)
(***************************************************************************)
EqMaxAttrs == 2

\* Attributes are name/value pairs; a node holds a list of them, in which a
\* name can occur more than once.
EqAttributes == [Name : {"a", "b"}, Value : {1, 2}]

EqAttrLists(n) == UNION {[1..k -> EqAttributes] : k \in 0..n}

\* The nodes compared: Name stands for the fields Equals compares with !=
\* (node.go:443-490, 512-514).
EqNodes ==
    [Name : {"x", "y"},
     ExtendedAttributes : EqAttrLists(EqMaxAttrs),
     GenericAttributes : EqAttrLists(1)]

\* node.go:561-564: attributesMap[attr.Name] = mapvalue{value: attr.Value}
\* for each attribute in turn: the last value of a name stays.
attributesMap(attributes) ==
    [name \in {attributes[i].Name : i \in 1..Len(attributes)} |->
        attributes[CHOOSE i \in 1..Len(attributes) :
                      /\ attributes[i].Name = name
                      /\ \A j \in (i + 1)..Len(attributes) : attributes[j].Name # name].Value]

\* node.go:549-597
sameAttributes(attributes, otherAttributes) ==
    LET nl == Len(attributes)
        ol == Len(otherAttributes)
        m == attributesMap(attributes)
        present == {otherAttributes[i].Name : i \in 1..ol}
    IN  IF nl # ol THEN FALSE
        ELSE IF nl = 0 THEN TRUE
        ELSE /\ \A i \in 1..ol :
                    /\ otherAttributes[i].Name \in DOMAIN m
                    /\ m[otherAttributes[i].Name] = otherAttributes[i].Value
             /\ \A name \in DOMAIN m : name \in present

\* node.go:442-518
Equals(node, other) ==
    /\ node.Name = other.Name
    /\ sameAttributes(node.ExtendedAttributes, other.ExtendedAttributes)
    /\ sameAttributes(node.GenericAttributes, other.GenericAttributes)

EqNoNode == [Name |-> "x", ExtendedAttributes |-> <<>>, GenericAttributes |-> <<>>]

EqInit ==
    /\ eqPc = "idle"
    /\ eqA = EqNoNode
    /\ eqB = EqNoNode
    /\ eqOut = <<TRUE, TRUE>>

\* Two nodes are compared, in both directions.
EqCompare ==
    /\ eqPc = "idle"
    /\ \E a \in EqNodes, b \in EqNodes :
        /\ eqA' = a
        /\ eqB' = b
        /\ eqOut' = <<Equals(a, b), Equals(b, a)>>
    /\ eqPc' = "done"
    /\ UNCHANGED notEq

\* The caller goes on to the next pair.
EqAgain ==
    /\ eqPc = "done"
    /\ eqPc' = "idle"
    /\ eqA' = EqNoNode
    /\ eqB' = EqNoNode
    /\ eqOut' = <<TRUE, TRUE>>
    /\ UNCHANGED notEq

EqNext ==
    \/ EqCompare
    \/ EqAgain

(***************************************************************************)
(* Initial state and specifications                                        *)
(***************************************************************************)
Init ==
    /\ GaInit
    /\ RmInit
    /\ NwInit
    /\ SvInit
    /\ RcInit
    /\ FwInit
    /\ AdInit
    /\ EnInit
    /\ SdInit
    /\ LsInit
    /\ PgInit
    /\ FtInit
    /\ OrInit
    /\ PvInit
    /\ EqInit

SpecWarn == Init /\ [][GaNext]_vars

SpecMeta == Init /\ [][RmNext]_vars

SpecOpenNW == Init /\ [][NwNext]_vars

SpecSave == Init /\ [][SvNext]_vars

SpecRecover == Init /\ [][RcNext]_vars

SpecFW == Init /\ [][FwNext]_vars

SpecAds == Init /\ [][AdNext]_vars

SpecEnc == Init /\ [][EnNext]_vars

SpecSaveDir == Init /\ [][SdNext]_vars

SpecList == Init /\ [][LsNext]_vars

SpecProgress == Init /\ [][PgNext]_vars

SpecFixTime == Init /\ [][FtNext]_vars

SpecOpenReader == Init /\ [][OrNext]_vars

SpecPrivilege == Init /\ [][PvNext]_vars

SpecEquals == Init /\ [][EqNext]_vars

\* C8: for every key node.go does not know, the number of warnings printed
\* plus the number of goroutines that won the LoadOrStore and are about to
\* print is 1 once the key has been handled by anyone and 0 before, however
\* many nodes carry the key and however many goroutines handle it: exactly
\* one warning per key and process lifetime.
GaPendingLogs(k) == Cardinality({p \in GaProcs : gaPc[p] = "log" /\ gaCur[p] = k})

C8_OneWarningPerUnknownKey ==
    \A k \in GaKeys \ genericAttributesForOS :
        /\ gaWarned[k] + GaPendingLogs(k) = (IF gaHandled[k] > 0 THEN 1 ELSE 0)
        /\ (k \in gaHistory) = (gaHandled[k] > 0)
        /\ gaIgnored[k] = 0

C8_Witness ==
    /\ gaHandled["FutureAttrA"] >= 3
    /\ gaWarned["FutureAttrA"] = 1
    /\ \A p \in GaProcs : gaNodes[p] >= 1

\* C9: the metadata calls of restoreMetadata are made in the order lchown,
\* timestamps, extended attributes, generic attributes, chmod: the calls made
\* so far are always a prefix of that list, the mode bits are applied for
\* every node that is not a symlink before the function returns, and no
\* call follows the chmod.
RmOrder == <<"lchown", "times", "xattr", "generic", "chmod">>

RmStepNames == [i \in 1..Len(rmSteps) |-> rmSteps[i][1]]

C9_ModeBitsLast ==
    /\ Len(rmSteps) <= Len(RmOrder)
    /\ \A i \in 1..Len(rmSteps) : RmStepNames[i] = RmOrder[i]
    /\ \A i \in 1..Len(rmSteps) : RmStepNames[i] = "chmod" => i = Len(rmSteps)
    /\ rmPc \in {"ret", "done"} =>
          Len(rmSteps) = (IF rmType = "symlink" THEN 4 ELSE 5)

C9_Witness ==
    /\ rmPc = "done"
    /\ rmType = "file"
    /\ RmStepNames = RmOrder
    /\ rmSteps[2][2] = "err"

\* C10: in a non-Windows OpenFile with createSize >= 0 the first open uses
\* O_CREATE|O_TRUNC|O_WRONLY; the read-only attribute is cleared exactly when
\* that open failed with permission denied; the open is retried once, after a
\* successful clear, and never a second time; on every other path there is
\* one open only.
NwCalls == [i \in 1..Len(nwLog) |-> nwLog[i][1]]

NwOpensMade == Cardinality({i \in 1..Len(nwLog) : nwLog[i][1] # "ResetPermissions"})

C10_CreateThenRetryOnce ==
    (nwCreateSize >= 0 /\ nwPc \in {"ret", "done"}) =>
        /\ nwLog[1][1] = "openFileWithCreate"
        /\ nwLog[1][3] = {"O_CREATE", "O_TRUNC", "O_WRONLY"}
        /\ IF nwLog[1][2] = "EACCES"
           THEN /\ Len(nwLog) >= 2
                /\ nwLog[2][1] = "ResetPermissions"
                /\ IF nwLog[2][2] = "nil"
                   THEN /\ Len(nwLog) = 3
                        /\ nwLog[3][1] = "openFileWithTruncWrite"
                        /\ nwReadonly = FALSE
                   ELSE Len(nwLog) = 2
           ELSE Len(nwLog) = 1
        /\ NwOpensMade <= 2

C10_Witness ==
    /\ nwPc = "done"
    /\ nwCreateSize >= 0
    /\ NwCalls = <<"openFileWithCreate", "ResetPermissions", "openFileWithTruncWrite">>
    /\ nwLog[3][2] = "nil"

C7_SaveFailsIfNameExists ==
    (svPc = "returned" /\ svOld.exists
        /\ svKind \in {"config", "snapshot", "key", "index"}) =>
            (svRet # "nil" /\ svFinal = svOld)

\* C5: recover writes a snapshot only when the root tree id is known and
\* Flush has completed, and the snapshot refers to that tree; when SaveTree
\* or Flush failed no snapshot is written, and createSnapshot is not reached.
C5_SnapshotOnlyAfterTreeAndFlush ==
    /\ rcSaved # {} => (rcTreeID = "recovered" /\ rcFlushed /\ rcWorker = "ok")
    /\ \A sn \in rcSaved : sn.tree = "recovered"
    /\ rcPc = "snapshot" => (rcTreeID = "recovered" /\ rcFlushed)
    /\ rcWorker = "failed" => (rcSaved = {} /\ rcPc # "snapshot")

C5_Witness ==
    /\ rcPc = "returned"
    /\ rcRet = "nil"
    /\ rcSaved = {[tree |-> "recovered", dirs |-> {1}]}
    /\ rcFlushed

\* The goroutines that are between acquireWriter and releaseWriter.
FwHolders == {p \in FwProcs : fwPc[p] \in {"write", "release", "releasing"}}

\* The handle a writer holds is open, and it is the one of the map.
FwHeldHandleIsOpen == \A p \in FwHolders : fwWr[p] \in fwOpen /\ fwFiles.h = fwWr[p]

\* With no goroutine inside writeToFile no handle is open and the map has no
\* entry for the path.
FwNoWriterNoHandle == (\A p \in FwProcs : fwPc[p] \in {"new", "idle"}) => (fwOpen = {} /\ fwFiles = NoEntry)

\* C2: the shared handle of a path is closed exactly when its last writer
\* releases it: never while a goroutine is between acquire and release, and
\* always once no writer remains.
C2_ClosedExactlyOnLastRelease == FwHeldHandleIsOpen /\ FwNoWriterNoHandle

\* C4: when the writeToFile calls of all chunks of a file have returned nil,
\* in whatever order and interleaving the chunks were written, the file holds
\* the bytes of the snapshot.
C4_AnyOrderSameBytes ==
    (\A c \in Chunks : fwResult[c] = "nil") => fwFile = File(SnapshotBytes)

C4_Witness ==
    /\ \A c \in Chunks : fwResult[c] = "nil"
    /\ fwOutOfOrder
    /\ fwMaxUsers = 2
    /\ fwFile = File(SnapshotBytes)

\* The parts whose restore is complete: every chunk's writeToFile returned nil.
AdRestored == {p \in AdParts : adCalls[p] = AdsChunks}

AdInSection == {p \in AdParts : adPc[p] \in {"truncwrite", "create", "createmain"}}

\* C3: at most one open/create decision for the main path is in progress.
C3_OneOpenPerMainPath == Cardinality(AdInSection) <= 1

\* C11: when the first openFileImpl of an OpenFile call fails with access
\* denied, the read-only flag of the main file is cleared and the open is
\* tried again, once: the call leaves the access-denied error only towards
\* its one retry, with the flag cleared.
C11_DeniedOpenClearsReadonlyAndRetriesOnce ==
    [][\A p \in AdParts :
        (adPc[p] = "denied" /\ adPc'[p] # "denied")
            => (adPc'[p] = "idle" /\ adAttempt'[p] = 2 /\ ~adDisk'.readonly)]_vars

\* The parts of the snapshot's file whose restore is complete.
EnRestored == {p \in AdParts : enCalls[p] = AdsChunks}

\* C12: once the main file has been restored over a file that existed, no
\* stream is left on disk that is not in the snapshot's stream list.
C12_NoStreamOutsideSnapshotList ==
    (0 \in EnRestored /\ enWas.exists) => ExtraStreams(enDisk, enList) = {}

\* OpenFile with createSize >= 0 has returned the handle of the main file.
EnMainOpened == enPc[0] = "write" \/ enCalls[0] > 0

\* C13: when the restore is over a file that existed and OpenFile has
\* returned the handle of the file, the file's encrypted attribute is the one
\* the snapshot asks for; the file was unlinked and recreated if its
\* attribute differed from the snapshot's, and it is the file that was there
\* if the attribute matched.
C13_EncryptionToggledOrFileReused ==
    (enWas.exists /\ EnMainOpened) =>
        /\ enDisk.exists
        /\ enDisk.encrypted = enNeeded
        /\ enDisk.unlinked = (enWas.encrypted # enNeeded)

C13_Witness ==
    /\ enWas.exists
    /\ enList = {}
    /\ enWas.encrypted # enNeeded
    /\ enPc[0] = "write"
    /\ enDisk.encrypted = enNeeded
    /\ enDisk.unlinked

\* C14: a mutex of the map is locked only by a part that is between
\* mutex.Lock() and the return of openFileImpl, deciding how to open or
\* create its file; a part that writes through its handle, or that has left
\* OpenFile, holds no mutex.
C14_MutexHeldOnlyInOpenDecision ==
    \A m \in adLocked : \E p \in AdInSection : adMutex[p] = m

C14_Witness ==
    /\ \E p \in AdParts : adPc[p] = "write"
    /\ adLocked # {}
    /\ \E q \in AdInSection : adMutex[q] \in adLocked

\* No part is inside OpenFile and no part has a handle open.
AdNoOpenHandle ==
    \A p \in AdParts : adPc[p] \in {"new", "idle", "failed"} /\ adAttempt[p] = 0

\* C15: the map holds no mutex for the main path while none of the path's
\* parts has a handle open or is opening one.
C15_NoMutexWithoutOpenHandle == AdNoOpenHandle => adMap = 0

UnreferencedTrees(repo) ==
    repo.trees \ (UNION {repo.sub[t] : t \in repo.trees} \cup repo.snaps)

\* The trees of the index that no tree recover could load and no snapshot
\* refers to.
UnreferencedByLoadedTrees(repo) ==
    repo.trees \ (UNION {repo.sub[t] : t \in repo.trees \ repo.bad} \cup repo.snaps)

\* C17 as stated: a snapshot recover writes has one top-level directory for
\* each tree of the repository that neither another tree nor a snapshot
\* refers to, and for no other tree; recover that returns nil with no such
\* tree has written no snapshot.
C17_RootsAreUnreferencedTrees ==
    /\ \A s \in rcSaved : s.dirs = UnreferencedTrees(rcRepo)
    /\ (rcPc = "returned" /\ UnreferencedTrees(rcRepo) = {}) => rcSaved = {}

\* C17, amended: the top-level directories are the trees of the index that
\* no snapshot and no tree recover could LOAD refers to: what a tree that
\* failed to load refers to counts as unreferenced.  Without such a tree no
\* snapshot is written.
C17_RootsAreUnreferencedByLoadedTrees ==
    /\ \A s \in rcSaved : s.dirs = UnreferencedByLoadedTrees(rcRepo)
    /\ (rcPc = "returned" /\ UnreferencedByLoadedTrees(rcRepo) = {}) => rcSaved = {}

C17_Witness ==
    /\ \E s \in rcSaved :
        /\ s.dirs = UnreferencedByLoadedTrees(rcRepo)
        /\ s.dirs # rcRepo.trees
    /\ rcRepo.bad = {}
    /\ rcRet = "nil"

\* C18: when recover has returned after an error was reported during the
\* run (a tree that could not be loaded), or with an error, its exit status
\* is not 0: it is 1, or 10, 11, 12 for a repository that could not be
\* opened.
C18_ExitStatusTellsErrors ==
    (rcPc = "returned" /\ (rcPrinted > 0 \/ rcRet # "nil")) => 0 \notin ExitStatus(rcRet)

\* The steps of recover that write to the repository.
RcWrites == RcRepairIndex \/ RcSaveTree \/ RcFlush \/ RcCreateSnapshot

\* C19: the index repair and every write of recover (tree, flush, snapshot)
\* is made while recover holds the exclusive lock, and the lock, once taken,
\* is given up only when runRecover returns.
C19_WritesUnderExclusiveLock ==
    [][/\ RcWrites => rcLocked
       /\ (rcLocked /\ ~rcLocked') => rcPc' = "returned"]_vars

C19_Witness ==
    /\ rcPc = "snapshot"
    /\ rcLocked
    /\ rcFlushed
    /\ rcTreeID = "recovered"

\* The errors of Save the claim C20 is about.
SvPermanentKinds == {"ENOSPC", "EACCES", "EPERM"}

C20_PermissionWitness ==
    /\ svPc = "returned"
    /\ svRet = "EACCES"
    /\ svSync = "notsup"
    /\ IsPermanentError(WithStack(svRet))

\* C21 as stated: when SaveDir has returned nil, every child whose error was
\* classified as reportable has a node among the children with the error in
\* its error field; and after a fatal error the tree was not submitted.
C21_ReportableRecordedFatalAborts ==
    /\ (sdPc = "returned" /\ sdRet = "nil")
          => \A p \in sdReported :
                \E k \in DOMAIN sdNodes : sdNodes[k].name = p /\ sdNodes[k].error # ""
    /\ (sdPc = "returned" /\ sdRet = "error saving a target") => ~sdSubmitted

C23_ChildrenAscending ==
    \A i, j \in DOMAIN sdNodes : i < j => StringLess(sdNodes[i].name, sdNodes[j].name)

\* A tree was submitted in which the stream "a:s" comes after the file "a-",
\* although it was collected right after "a".
C23_Witness ==
    /\ sdSubmitted
    /\ Len(sdNodes) = 3
    /\ sdNodes[2].name = <<97, 45>>
    /\ sdNodes[3].name = <<97>> \o SdStream

\* C22, the half about List: when the context is cancelled and a file is
\* still to be passed to fn, the next step of List calls fn no more and
\* returns the cancellation error; and fn is never called after a cancel.
C22_ListCancelSeenBeforeNextFile ==
    [][/\ lsCancelled => lsCalls' = lsCalls
       /\ (lsCancelled /\ lsPc = "files" /\ lsFiles > 0)
             => (lsPc' = "returned" /\ lsRet' = "context canceled")]_vars

\* C24 as stated: List returns the first error it met, and when it met none
\* every file was passed to fn.  (Stated for a List that has called fn at
\* least once, which leaves aside the missing base directory.)
C24_ListReturnsFirstError ==
    (lsPc = "returned" /\ lsCalls > 0)
       => /\ lsRet = lsFirstErr
          /\ lsRet = "nil" => (lsDirs = 0 /\ lsFiles = 0)

\* C25: when lchown failed with a permission error, restoreMetadata run by
\* an ordinary user neither keeps nor returns that error, and restoreMetadata
\* run by root returns an error.
C25_LchownPermissionErrorOnlyForRoot ==
    (rmSteps # <<>> /\ rmSteps[1] = <<"lchown", "EPERM">>)
       => /\ rmEuid > 0 => (rmFirstErr # "lchown" /\ rmRet # "lchown")
          /\ (rmEuid = 0 /\ rmPc = "done") => rmRet # "nil"

\* An ordinary user's lchown was denied and restoreMetadata returned nil.
C25_Witness ==
    /\ rmPc = "done"
    /\ rmEuid > 0
    /\ rmSteps[1] = <<"lchown", "EPERM">>
    /\ rmRet = "nil"

\* C26: in the Windows build every file counter equals the number of main
\* files processed, stream entries not counted, and the size total is the
\* sum of the sizes of all entries, stream entries included.
C26_StreamsAddBytesNotFiles ==
    pgWindows =>
       /\ pgSummary = pgSeen.backupMain
       /\ pgProgress.filesTotal = pgSeen.addedMain
       /\ pgProgress.filesFinished = pgSeen.finishedMain
       /\ pgProgress.bytesTotal = pgSeen.bytes

\* A restore on Windows has announced a main file and a stream entry with
\* bytes: one file, the bytes of both.
C26_Witness ==
    /\ pgWindows
    /\ pgSeen.added = 2
    /\ pgSeen.addedMain = 1
    /\ pgProgress.filesTotal = 1
    /\ pgProgress.bytesTotal = 2 * MaxSize
    /\ pgSeen.finished = 2
    /\ pgSummary = 1
    /\ pgSeen.backup = 2

\* C28 as stated: the year of the result is the year of the timestamp
\* clamped to 0..9999, and month, day and time of day are those of the
\* timestamp.
C28_FixTimeClampsYearOnly ==
    ftPc = "done"
       => /\ ftOut.year = (IF ftIn.year < 0 THEN 0
                           ELSE IF ftIn.year > 9999 THEN 9999 ELSE ftIn.year)
          /\ ftOut.month = ftIn.month
          /\ ftOut.day = ftIn.day
          /\ ftOut.second = ftIn.second

\* The half of C28 that holds: the year of the result is the clamped year.
C28_YearInRange ==
    ftPc = "done"
       => ftOut.year = (IF ftIn.year < 0 THEN 0
                        ELSE IF ftIn.year > 9999 THEN 9999 ELSE ftIn.year)

\* C27: a reader that OpenReader returned for offset o and length n yields
\* exactly the bytes o+1..o+n of the object when n > 0 and the bytes from
\* o+1 to the end when n = 0; a range beyond the end of the object is
\* refused (errTooShort) instead of being cut short.
C27_RangedReadExact ==
    orPc = "open" =>
       /\ (orOut.err = "nil" /\ orIn.length > 0)
             => /\ Len(orOut.bytes) = orIn.length
                /\ \A i \in 1..orIn.length : orOut.bytes[i] = orIn.data[orIn.offset + i]
       /\ (orOut.err = "nil" /\ orIn.length = 0)
             => /\ Len(orOut.bytes) = Len(orIn.data) - orIn.offset
                /\ \A i \in 1..Len(orOut.bytes) : orOut.bytes[i] = orIn.data[orIn.offset + i]
       /\ Len(orIn.data) < orIn.offset + orIn.length => orOut.err # "nil"

\* One byte was read from the middle of an object of two bytes.
C27_Witness ==
    /\ orPc = "open"
    /\ orOut.err = "nil"
    /\ Len(orIn.data) = 2
    /\ orIn.offset = 1
    /\ orIn.length = 1
    /\ orOut.bytes = <<orIn.data[2]>>

\* C29 as stated: a GetFileSecurityDescriptor call that began with no
\* DisableBackupPrivileges in progress reads the descriptor only with the
\* privilege enabled, once every DisableBackupPrivileges has returned.
C29_PrivilegeEnabledBeforeAccess ==
    \A p \in PvProcs :
        (pvPc[p] = "access" /\ pvFresh[p] /\ \A q \in PvProcs : pvPc[q] # "disabling")
           => pvEnabled

\* C30: preallocating a restored file to its final size is best-effort: the
\* preallocation error is no chunk's result; after it a chunk's writeToFile
\* returns nil or the error of its own OpenFile, WriteAt or Close.
C30_PreallocateFailureNotFatal ==
    fwPrealloc = "failed" =>
        \A c \in Chunks : fwResult[c] \in {"todo", "running", "nil", "EIO", "close error",
                                           "EACCES"}

C30_Witness ==
    /\ fwPrealloc = "failed"
    /\ ~fwSparse
    /\ \A c \in Chunks : fwResult[c] = "nil"
    /\ fwFile = File(SnapshotBytes)

\* C31: the handle map has an entry for the path exactly while at least one
\* writeToFile call for the path is between acquire and release, and the
\* entry's reference count is the number of such calls.
C31_EntryCountsHolders ==
    /\ fwFiles.users = Cardinality(FwHolders)
    /\ (fwFiles # NoEntry) = (FwHolders # {})

\* C31, apart from C32's failure: as long as sizing a sparse file has not
\* failed the count is the number of calls between acquire and release, after
\* WriteAt succeeded and after it failed.
C31_EntryCountsHoldersUnlessSizingFailed ==
    (\A c \in Chunks : fwResult[c] # "truncate error") => C31_EntryCountsHolders

\* C32: when acquiring the writer fails, because the open fails or because
\* sizing a sparse file fails, and no other call is between acquire and
\* release, the map has no entry for the path and no handle is open.
C32_FailedAcquireLeavesNothing ==
    (/\ \E c \in Chunks : fwResult[c] \in {"EACCES", "ENOENT", "truncate error"}
     /\ FwHolders = {}) => (fwFiles = NoEntry /\ fwOpen = {})

\* C32, the half that holds: after a failed open nothing is left.
C32_FailedOpenLeavesNothing ==
    (/\ \E c \in Chunks : fwResult[c] \in {"EACCES", "ENOENT"}
     /\ \A c \in Chunks : fwResult[c] # "truncate error"
     /\ FwHolders = {}) => (fwFiles = NoEntry /\ fwOpen = {})

\* The restore has to change the encryption state of a file that existed and
\* restores streams for it.
EnToggles == enWas.exists /\ enWas.encrypted # enNeeded /\ enList # {}

\* The chunks of part p whose writeToFile has returned nil.
EnWritten(p) == 1..enCalls[p]

\* C33: when the main file is removed and recreated to change its encryption
\* state while its streams are restored, every chunk of the main file and of
\* a stream that this restore has written is on disk, for every order in
\* which the main file and its streams are opened.
C33_ToggleLosesNothingWritten ==
    EnToggles => \A p \in AdParts : EnWritten(p) \subseteq AdContent(enDisk, p)

\* C34: removing the mutex of a main path from the map while a goroutine
\* holds it or waits for it never lets two goroutines into the open/create
\* section of that main path at the same time: all goroutines in the section
\* are there under one and the same mutex.
C34_RemovedMutexStillExcludes ==
    \A p, q \in AdInSection : p = q /\ adMutex[p] = adMutex[q]

\* C35: whenever the non-Windows open succeeds, directly or on the retry
\* after clearing read-only, OpenFile returns the handle it opened together
\* with a nil error.
C35_SuccessReturnsOpenedHandle ==
    (nwPc = "done" /\ nwRet[2] = "nil") => (nwF = "open" /\ nwRet[1] = "open")

\* C35, the half that holds: a nil error is returned exactly when the last
\* open succeeded, and the handle that open made is then open.
C35_NilErrorMeansOpened ==
    (nwPc = "done" /\ nwRet[2] = "nil") => nwF = "open"

\* The steps of the finished call that returned an error.
RmFailedSteps == {rmSteps[i][1] : i \in {j \in 1..Len(rmSteps) : rmSteps[j][2] # "nil"}}

\* C36: restoreMetadata returns a non-nil error whenever restoring
\* timestamps, extended attributes, generic attributes or mode bits failed,
\* also when setting uid/gid succeeded or its error was ignored.
C36_LaterFailureIsReturned ==
    (rmPc = "done" /\ RmFailedSteps \cap {"times", "xattr", "generic", "chmod"} # {})
        => rmRet # "nil"

\* C36, what the code does: a failure after lchown is returned only when
\* lchown has set firsterr, and then the error returned is that of the last
\* step that failed.
C36_LaterFailureReturnedOnlyAfterLchownError ==
    rmPc = "done" => (rmRet # "nil") = (\E i \in 1..Len(rmSteps) :
                                            /\ rmSteps[i][1] = "lchown"
                                            /\ rmSteps[i][2] # "nil"
                                            /\ ~(rmEuid > 0 /\ rmSteps[i][2] = "EPERM"))

\* C37: a failure to enable the backup privilege does not outlive a later
\* successful enable: the GetFileSecurityDescriptor call whose once enables
\* the privilege successfully goes on to read the descriptor, it does not
\* return the privilege error of an earlier attempt.
C37_EnableSuccessClearsEarlierError ==
    [][(~pvOnceDone /\ pvOnceDone' /\ ~pvEnabled /\ pvEnabled')
        => \E p \in PvProcs : pvPc[p] = "idle" /\ pvPc'[p] = "access"]_vars

\* C37, what the code keeps: backupPrivilegeError, once set, stays set.
C37_PrivilegeErrorIsSticky == [][pvError => pvError']_vars

\* Save has returned an error after the temporary file was opened.
SvFailedAfterOpen == svPc = "returned" /\ svDefer /\ svRet # "nil"

\* C38 as stated: whenever Save returns an error after the temporary file
\* was opened, the temporary file has been closed and removed; a failed Save
\* leaves no temporary file behind.
C38_FailedSaveLeavesNoTempFile ==
    SvFailedAfterOpen => (~svTmpOpen /\ ~svTmp.exists)

\* C38, amended: whenever Save returns an error after the temporary file was
\* opened, the file has been closed and options.Remove has been called on
\* its name; no temporary file is left unless that removal itself failed.
C38_FailedSaveClosesAndCallsRemove ==
    SvFailedAfterOpen =>
        /\ ~svTmpOpen
        /\ svRemoveErr # "none"
        /\ svRemoveErr \in {"nil", "ENOENT"} => ~svTmp.exists

C38_Witness ==
    /\ SvFailedAfterOpen
    /\ svRet = "ENOSPC"
    /\ svSync = "none"
    /\ svRemoveErr = "nil"
    /\ ~svTmp.exists
    /\ ~svTmpOpen

\* C39: Node.Equals is symmetric: a.Equals(b) holds exactly when b.Equals(a),
\* also when an attribute name occurs more than once in a node.
C39_EqualsSymmetric == eqPc = "done" => eqOut[1] = eqOut[2]

\* An attribute list in which every name occurs once.
EqDistinctNames(attrs) ==
    \A i, j \in 1..Len(attrs) : attrs[i].Name = attrs[j].Name => i = j

\* C39, the half that holds: Equals is symmetric on nodes whose attribute
\* lists name every attribute once.
C39_EqualsSymmetricWithoutDuplicates ==
    (/\ eqPc = "done"
     /\ EqDistinctNames(eqA.ExtendedAttributes) /\ EqDistinctNames(eqB.ExtendedAttributes)
     /\ EqDistinctNames(eqA.GenericAttributes) /\ EqDistinctNames(eqB.GenericAttributes))
        => eqOut[1] = eqOut[2]

====
